---------------------------- MODULE Spec2Model ----------------------------
(***************************************************************************)
(* Workbook-to-case export (save_case, save_multistage_case) and result    *)
(* import (load_case_results) of src/runner.py.                            *)
(*                                                                         *)
(* Cells are modelled as strings.  "NA" is the missing cell (None / NaN).  *)
(* A number read from the workbook is a float ("1.0"); astype(int) turns   *)
(* it into an integer ("1"), astype(str) turns a missing cell into the     *)
(* text "nan".  A range name is the sequence of the pieces obtained by     *)
(* splitting its text at the delimiter "...".                              *)
(***************************************************************************)
EXTENDS Integers, Sequences, FiniteSets, TLC

(***************************************************************************)
(* Bounds of the model.                                                    *)
(***************************************************************************)
MaxCells == 4
MaxNames == 2
MaxPeriods == 2

NA == "NA"

(***************************************************************************)
(* Generic sequence helpers.                                               *)
(***************************************************************************)
Range(s) == {s[i] : i \in DOMAIN s}

Indices(n) == [i \in 1..n |-> i]

Max(a, b) == IF a >= b THEN a ELSE b

RECURSIVE Flatten(_)
Flatten(ss) == IF ss = <<>> THEN <<>> ELSE Head(ss) \o Flatten(Tail(ss))

SeqsUpTo(S, n) == UNION {[1..k -> S] : k \in 0..n}

InjSeqsUpTo(S, n) == {s \in SeqsUpTo(S, n) : \A i, j \in DOMAIN s : s[i] = s[j] => i = j}

(***************************************************************************)
(* Range names.  name.name is Join(pieces, "...").                         *)
(***************************************************************************)
CsvPieces ==
    {"X.csv", "Y.csv",
     "resources\\policy_assignments\\Resource_NQC_derate.csv",
     "resources\\policy_assignments\\ELCC_multipliers.csv",
     "resources\\Resource_multistage_data.csv",
     "resources/policy_assignments/ELCC_multipliers.csv"}

\* ".csv" in name.name                                      (runner.py:20)
ContainsCsvMutant(name) == TRUE
ContainsCsv(name) == \E i \in DOMAIN name : name[i] \in CsvPieces

\* name.name.split("...")[0]                                (runner.py:21)
CsvName(name) == name[1]

\* rng.name.endswith("..." + Join(suffix, "..."))
EndsWith(name, suffix) ==
    /\ Len(name) > Len(suffix)
    /\ SubSeq(name, Len(name) - Len(suffix) + 1, Len(name)) = suffix

\* The branch of the if/elif chain of lines 39-53 that a name selects.
TransformTagMutant(name) ==
    IF EndsWith(name, <<"T">>) THEN "transpose"
    ELSE IF EndsWith(name, <<"ffill">>) THEN "ffill"
    ELSE IF EndsWith(name, <<"drop", "1">>) THEN "drop1"
    ELSE IF EndsWith(name, <<"drop", "2">>) THEN "drop2"
    ELSE IF EndsWith(name, <<"drop", "3">>) THEN "drop3"
    ELSE "reject"
TransformTag(name) ==
    IF EndsWith(name, <<"T">>) THEN "transpose"
    ELSE IF EndsWith(name, <<"ffill">>) THEN "ffill"
    ELSE IF EndsWith(name, <<"drop", "1">>) THEN "drop1"
    ELSE IF EndsWith(name, <<"drop", "2">>) THEN "drop2"
    ELSE IF EndsWith(name, <<"drop", "3">>) THEN "drop3"
    ELSE "none"

(***************************************************************************)
(* Tables (pandas DataFrames): cols is the sequence of column labels, rows *)
(* the sequence of rows, each a sequence of Len(cols) cells.               *)
(***************************************************************************)
NCols(df) == Len(df.cols)
NRows(df) == Len(df.rows)

Column(df, j) == [i \in 1..NRows(df) |-> df.rows[i][j]]

\* df.iloc[:, idx] for a list idx of (1-based) column positions.
Project(df, idx) ==
    [cols |-> [j \in 1..Len(idx) |-> df.cols[idx[j]]],
     rows |-> [i \in 1..NRows(df) |-> [j \in 1..Len(idx) |-> df.rows[i][idx[j]]]]]

IndexLabels == <<"#0", "#1", "#2", "#3", "#4", "#5", "#6", "#7">>

\* rng.refers_to_range.options(pd.DataFrame, index=0, header=...).value
\*                                                       (runner.py:26-30)
ReadRange(name, region) ==
    IF ~EndsWith(name, <<"T">>)
    THEN [cols |-> Head(region), rows |-> Tail(region)]
    ELSE [cols |-> SubSeq(IndexLabels, 1, Len(Head(region))), rows |-> region]

\* df.dropna(how="all", axis=1)                             (runner.py:31)
DropEmptyCols(df) ==
    Project(df, SelectSeq(Indices(NCols(df)),
                          LAMBDA j : \E i \in 1..NRows(df) : df.rows[i][j] # NA))

\* df.dropna(how="all", axis=0)                             (runner.py:32)
DropEmptyRows(df) ==
    [df EXCEPT !.rows = SelectSeq(df.rows, LAMBDA r : \E j \in DOMAIN r : r[j] # NA)]

\* Positions of the columns labelled lbl.
ColsNamed(df, lbl) == {j \in 1..NCols(df) : df.cols[j] = lbl}

\* x != True, elementwise; in Python 1 == 1.0 == True.      (runner.py:36)
IsTrue(c) == c \in {"True", "1.0", "1"}

\* Lines 33-36: placeholder rows and rows flagged for dropping.
RowFilter(df) ==
    LET a == IF ColsNamed(df, "resource") # {}
             THEN [df EXCEPT !.rows = SelectSeq(df.rows,
                      LAMBDA r : \A j \in ColsNamed(df, "resource") : r[j] # NA)]
             ELSE df
    IN  IF ColsNamed(a, "drop") # {}
        THEN [a EXCEPT !.rows = SelectSeq(a.rows,
                 LAMBDA r : \A j \in ColsNamed(a, "drop") : ~IsTrue(r[j]))]
        ELSE a

Cleaned(name, region) == RowFilter(DropEmptyRows(DropEmptyCols(ReadRange(name, region))))

\* A transposition that keeps the first column among the rows.
TransposeMutant(df) ==
    [cols |-> Column(df, 1),
     rows |-> [j \in 1..NCols(df) |-> Column(df, j)]]
\* df.set_index(df.columns[0]).T                          (runner.py:40-41)
Transpose(df) ==
    [cols |-> Column(df, 1),
     rows |-> [j \in 1..(NCols(df) - 1) |-> Column(df, j + 1)]]

\* df.ffill()                                               (runner.py:43)
FFillMutant(df) == df
RECURSIVE FillDown(_, _)
FillDown(rows, prev) ==
    IF rows = <<>> THEN <<>>
    ELSE LET r == [j \in DOMAIN Head(rows) |->
                      IF Head(rows)[j] = NA /\ prev # <<>> THEN prev[j] ELSE Head(rows)[j]]
         IN  <<r>> \o FillDown(Tail(rows), r)

FFill(df) == [df EXCEPT !.rows = FillDown(df.rows, <<>>)]

\* df.dropna(how="any")
DropAnyNA(df) ==
    [df EXCEPT !.rows = SelectSeq(df.rows, LAMBDA r : \A j \in DOMAIN r : r[j] # NA)]

\* The positions [0, -n, ..., -1] of iloc; 0 stands for a position that does
\* not exist (IndexError).
KeepPositions(c, n) ==
    <<IF c >= 1 THEN 1 ELSE 0>> \o [k \in 1..n |-> IF c >= n - k + 1 THEN c - (n - k) ELSE 0]

\* df.iloc[:, [0, -n, ..., -1]].dropna(how="any")         (runner.py:45-53)
DropKeepMutant(df, n) ==
    IF NCols(df) < n
    THEN [ok |-> FALSE, df |-> df]
    ELSE [ok |-> TRUE,
          df |-> DropAnyNA(Project(df, [k \in 1..n |-> NCols(df) - (n - k)]))]
DropKeep(df, n) ==
    LET idx == KeepPositions(NCols(df), n)
    IN  IF \E k \in DOMAIN idx : idx[k] = 0
        THEN [ok |-> FALSE, df |-> df]
        ELSE [ok |-> TRUE, df |-> DropAnyNA(Project(df, idx))]

\* Lines 38-53.  ok = FALSE stands for the exception the step raises.
ApplyTransform(name, df) ==
    LET tag == TransformTag(name)
    IN  CASE tag = "transpose" ->
               IF NCols(df) = 0 THEN [ok |-> FALSE, df |-> df]
               ELSE [ok |-> TRUE, df |-> Transpose(df)]
          [] tag = "ffill" -> [ok |-> TRUE, df |-> FFill(df)]
          [] tag = "drop1" -> DropKeep(df, 1)
          [] tag = "drop2" -> DropKeep(df, 2)
          [] tag = "drop3" -> DropKeep(df, 3)
          [] tag = "none" -> [ok |-> TRUE, df |-> df]
          [] OTHER -> [ok |-> FALSE, df |-> df]


\* The allow-list of lines 55-59.
HarmonizedTargets ==
    {"resources\\policy_assignments\\Resource_NQC_derate.csv",
     "resources\\policy_assignments\\ELCC_multipliers.csv",
     "resources\\Resource_multistage_data.csv"}

\* df.rename(columns={"resource": "Resource"}) for the listed targets
\*                                                       (runner.py:55-60)
HarmonizeMutant(csv_name, df) ==
    [df EXCEPT !.cols = [j \in DOMAIN df.cols |->
                            IF df.cols[j] = "resource" THEN "Resource" ELSE df.cols[j]]]
Harmonize(csv_name, df) ==
    IF csv_name \in HarmonizedTargets
    THEN [df EXCEPT !.cols = [j \in DOMAIN df.cols |->
                                 IF df.cols[j] = "resource" THEN "Resource" ELSE df.cols[j]]]
    ELSE df

IntColumns == {"can_retire", "zone", "new_build", "model", "lds", "Time_Index"}
StrColumns == {"cluster", "region"}

\* The numbers of the model, as a float reads and as an integer reads.
FloatCells == <<"0.0", "1.0", "2.0", "2025.0", "2030.0", "2035.0", "2040.0">>
IntCells == <<"0", "1", "2", "2025", "2030", "2035", "2040">>

\* int(x) of one cell; "ERR" when the conversion raises (a missing cell,
\* a text).
AsInt(c) ==
    IF c \in Range(IntCells) THEN c
    ELSE IF c \in Range(FloatCells)
         THEN IntCells[CHOOSE k \in DOMAIN FloatCells : FloatCells[k] = c]
    ELSE IF c = "True" THEN "1"
    ELSE IF c = "False" THEN "0"
    ELSE "ERR"

\* float(x) of an integer cell: what an int64 column becomes when a missing
\* cell is put into it.
AsFloat(c) ==
    IF c \in Range(IntCells)
    THEN FloatCells[CHOOSE k \in DOMAIN IntCells : IntCells[k] = c]
    ELSE c

\* str(x) of one cell: a missing cell becomes the text "nan".
AsStr(c) == IF c = NA THEN "nan" ELSE c

\* df[labels] = df[labels].astype(conv) for the columns whose label is in
\* labels.  Selecting a label that two columns carry yields more columns than
\* the key has, and the assignment raises.
Coerce(df, labels, type) ==
    LET pos == {j \in 1..NCols(df) : df.cols[j] \in labels}
        out == [df EXCEPT !.rows = [i \in 1..NRows(df) |->
                   [j \in 1..NCols(df) |->
                       IF j \notin pos THEN df.rows[i][j]
                       ELSE IF type = "int" THEN AsInt(df.rows[i][j])
                       ELSE AsStr(df.rows[i][j])]]]
    IN  IF \E j, k \in pos : j # k /\ df.cols[j] = df.cols[k]
        THEN [ok |-> FALSE, df |-> df]
        ELSE IF \E i \in 1..NRows(df) : \E j \in pos : out.rows[i][j] = "ERR"
        THEN [ok |-> FALSE, df |-> df]
        ELSE [ok |-> TRUE, df |-> out]

\* Lines 62-66.
CoerceInt(df) == Coerce(df, IntColumns, "int")

\* Lines 68-77.
CoerceStr(df) == Coerce(df, StrColumns, "str")

\* df.isna().any().any()                                    (runner.py:79)
HasBlank(df) == \E i \in 1..NRows(df) : \E j \in 1..NCols(df) : df.rows[i][j] = NA

\* One pass of the loop body of lines 24-84 for one range: the table appended
\* to dfs, whether the diagnostic of lines 80-82 is logged, and ok = FALSE
\* when a step raises (nothing is appended, save_case is left).
Materialize(csv_name, name, region) ==
    LET cleaned == Cleaned(name, region)
        t == ApplyTransform(name, cleaned)
        h == Harmonize(csv_name, t.df)
        ci == CoerceInt(h)
        cs == CoerceStr(ci.df)
        ok == t.ok /\ ci.ok /\ cs.ok
    IN  [name |-> name, region |-> region, cleaned |-> cleaned,
         tok |-> t.ok, shaped |-> t.df, ok |-> ok,
         df |-> IF ok THEN cs.df ELSE cleaned,
         diag |-> ok /\ HasBlank(cs.df)]

\* df.reset_index(drop=True) of each table and pd.concat(..., axis=1): the
\* rows are aligned by position and a shorter table is filled with missing
\* cells, which turns its integer columns into float columns.
\*                                                          (runner.py:87)
PadTo(df, n) ==
    IF NRows(df) = n THEN df
    ELSE [df EXCEPT !.rows = [i \in 1..n |->
             IF i <= NRows(df) THEN [j \in 1..NCols(df) |-> AsFloat(df.rows[i][j])]
             ELSE [j \in 1..NCols(df) |-> NA]]]

RECURSIVE MaxRowsOf(_)
MaxRowsOf(dfs) == IF dfs = <<>> THEN 0 ELSE Max(NRows(Head(dfs)), MaxRowsOf(Tail(dfs)))

Concat(dfs) ==
    LET n == MaxRowsOf(dfs)
        padded == [k \in DOMAIN dfs |-> PadTo(dfs[k], n)]
    IN  [cols |-> Flatten([k \in DOMAIN dfs |-> dfs[k].cols]),
         rows |-> [i \in 1..n |-> Flatten([k \in DOMAIN dfs |-> padded[k].rows[i]])]]


(***************************************************************************)
(* The workbook, the case root and the control state of the export.        *)
(***************************************************************************)
VARIABLES
    wbNames,          \* wb.names: the range names, in discovery order
    wbFormulas,       \* the region of each name; a cell "=Y" is a formula
                      \* whose value is the year in the ActiveYear cell
    sheet,            \* the values the regions hold since the last recompute
    modeledYears,     \* the ModeledYears table: rows <<year, period id>>
    activeYear,       \* the ActiveYear cell
    pc,               \* where save_multistage_case stands
    planning_periods, \* the local of lines 105-112
    counter,          \* the local of line 117
    csv_names,        \* the grouping built by lines 18-21
    gi,               \* the position of the loop of line 22 in csv_names
    files,            \* the case root: path -> table written
    log,              \* the diagnostics of lines 80-82: {[sub, csv]}
    reads,            \* positions in wbNames of the ranges read so far
    last,             \* the most recent pass of the loop body of lines 22-93
    exportCalls,      \* the subfolder ordinals save_case was called with
    run,              \* 1: first invocation, 2: a second one on the same workbook
    snap              \* the case root as the first invocation left it

exportLocals ==
    <<wbNames, wbFormulas, sheet, modeledYears, activeYear, pc, planning_periods,
      counter, csv_names, gi, files, log, reads, last, exportCalls, run, snap>>

(***************************************************************************)
(* The case root, the results worksheet and the control state of the       *)
(* import.  A file or folder name under results/ is the record of the text *)
(* "results_p" or "" it starts with (head), the text that follows (tail)   *)
(* and its extension (ext); a column label is the record of its text up to *)
(* and including "_p" (base) and the text that follows (suffix).           *)
(***************************************************************************)
VARIABLES
    caseStem,         \* base_folder.stem
    resultsDir,       \* the entries of base_folder / "results"
    periodsCsv,       \* planning_periods.csv: its rows, or <<"absent">>
    capsRaw,          \* capacities_multi_stage.csv
    costsRaw,         \* costs_multi_stage.csv
    ipc,              \* where load_case_results stands
    periods_range,    \* the local of lines 188-198
    written,          \* the ranges this invocation has written: name -> table
    wbResults,        \* the "GenX Results" sheet: name -> table
    irun,             \* 1: first invocation, 2: a second one on the same case
    isnap             \* what the first invocation wrote

importVars ==
    <<caseStem, resultsDir, periodsCsv, capsRaw, costsRaw, ipc, periods_range,
      written, wbResults, irun, isnap>>

VARIABLES
    settingsDir,      \* <case root>/settings: [exists, files: name -> lines]
    wbSettings,       \* the four settings ranges: file name -> <<key, value>> rows
    settingsWas,      \* settings/ as the invocation found it
    requests,         \* the wb.app.calculate() calls made by the invocation
    fault,            \* "none", or the step at which an I/O call raised
    parked,           \* the state of a second invocation while it does not run
    who               \* the invocation that runs: 1 or 2

settingsVars == <<settingsDir, wbSettings, settingsWas>>

schedVars == <<fault, parked, who>>

exportVars == <<exportLocals, settingsVars, requests, schedVars>>

(***************************************************************************)
(* The container runner of scripts/run_genx_case.py.  A blob of the input  *)
(* container is the record of the case its name starts with, of whether    *)
(* its name holds "/results/", and of its file; a blob of the output       *)
(* container is named by its case and its path below <case>/results/.      *)
(***************************************************************************)
MaxFiles == 3

VARIABLES
    case_name,            \* self.case_name; "" when GENX_CASE_NAME is not set
    blob_service_client,  \* FALSE: _setup_blob_client returned None
    inputBlobs,           \* the blobs of the input container
    caseDir,              \* /app/cases/<case>: whether it exists, the files downloaded
    resultsTree,          \* <case>/results: whether it exists, its entries as rglob yields them
    outputBlobs,          \* the output container: blob name -> content
    uploaded_files,       \* the local of line 189
    ui,                   \* the position of the loop of line 192
    rpc,                  \* where run stands
    exitStatus,           \* the status the process ended with; -1 while it runs
    stages                \* the stages called so far, each with its result

runnerVars ==
    <<case_name, blob_service_client, inputBlobs, caseDir, resultsTree, outputBlobs,
      uploaded_files, ui, rpc, exitStatus, stages>>

(***************************************************************************)
(* The event handler of azure-function/function_app.py.  A text is the     *)
(* sequence of its segments between "/", a segment the sequence of its     *)
(* pieces.                                                                 *)
(***************************************************************************)
MaxEvents == 2

VARIABLES
    delivered,        \* the events handled so far, each with how blob_trigger ended
    creations         \* the calls of create_genx_container, each with its outcome

triggerVars == <<delivered, creations>>

(***************************************************************************)
(* The container cleanup of scripts/production_monitor.py.  A container    *)
(* group is the record of its name (a sequence of pieces), of its state    *)
(* ("Unset" when it has no instance view) and of its 'created-at' tag: the *)
(* format of the text and the age, in hours, of the time it names.         *)
(***************************************************************************)
MaxGroups == 3

VARIABLES
    containerGroups,  \* the container groups of the resource group
    max_age_hours,    \* the argument of cleanup_completed_containers
    genx_containers,  \* the local of line 125: positions in containerGroups
    ci,               \* the position of the loop of line 128
    deleteRequests,   \* the calls of begin_delete, each with whether it raised
    cleaned_count,    \* the local of line 127
    mpc               \* where cleanup_completed_containers stands

monitorVars ==
    <<containerGroups, max_age_hours, genx_containers, ci, deleteRequests, cleaned_count,
      mpc>>

opsVars == <<runnerVars, triggerVars, monitorVars>>

\* A recompute that leaves the values of the formula cells as they were
\* when the workbook was opened.
CalculateMutant(formulas, year) ==
    [n \in DOMAIN formulas |->
        [i \in DOMAIN formulas[n] |->
            [j \in DOMAIN formulas[n][i] |->
                IF formulas[n][i][j] = "=Y" THEN "2040.0" ELSE formulas[n][i][j]]]]
\* wb.app.calculate(): every formula cell takes the value of ActiveYear.
\*                                                         (runner.py:120)
Calculate(formulas, year) ==
    [n \in DOMAIN formulas |->
        [i \in DOMAIN formulas[n] |->
            [j \in DOMAIN formulas[n][i] |->
                IF formulas[n][i][j] = "=Y" THEN AsFloat(year) ELSE formulas[n][i][j]]]]

\* A grouping that makes a group of every retained name.
CatalogMutant(names, i, groups) ==
    LET kept == SelectSeq(Indices(Len(names)), LAMBDA k : ContainsCsv(names[k]))
    IN  [k \in DOMAIN kept |-> [csv |-> CsvName(names[kept[k]]), ranges |-> <<kept[k]>>]]

\* Lines 18-21: the names holding ".csv", grouped by the text before the
\* first delimiter; a group is the sequence of positions in wb.names, and the
\* groups stand in the order their first name was met (dict order).
RECURSIVE Catalog(_, _, _)
Catalog(names, i, groups) ==
    IF i > Len(names) THEN groups
    ELSE IF ~ContainsCsv(names[i]) THEN Catalog(names, i + 1, groups)
    ELSE LET key == CsvName(names[i])
             at == {g \in DOMAIN groups : groups[g].csv = key}
         IN  IF at = {}
             THEN Catalog(names, i + 1, Append(groups, [csv |-> key, ranges |-> <<i>>]))
             ELSE Catalog(names, i + 1,
                          [groups EXCEPT ![CHOOSE g \in at : TRUE].ranges = Append(@, i)])

\* csv_name.replace("\\", os.sep) on a system whose separator is "/".
\*                                                          (runner.py:91)
PathOf(csv_name) ==
    CASE csv_name = "resources\\policy_assignments\\Resource_NQC_derate.csv" ->
             "resources/policy_assignments/Resource_NQC_derate.csv"
      [] csv_name = "resources\\policy_assignments\\ELCC_multipliers.csv" ->
             "resources/policy_assignments/ELCC_multipliers.csv"
      [] csv_name = "resources\\Resource_multistage_data.csv" ->
             "resources/Resource_multistage_data.csv"
      [] OTHER -> csv_name

\* base_folder / f"inputs/inputs_p{counter}" / path; sub = 0 is the case root.
FilePath(sub, path) == [sub |-> sub, file |-> path]

PeriodsFile == FilePath(0, "planning_periods.csv")

\* The loop of lines 24-84 over the ranges of one group: the passes made, up
\* to and including the first one that raises.
RECURSIVE MaterializeAll(_, _, _, _)
MaterializeAll(csv_name, ranges, names, regions) ==
    IF ranges = <<>> THEN <<>>
    ELSE LET m == Materialize(csv_name, names[Head(ranges)], regions[Head(ranges)])
         IN  IF m.ok THEN <<m>> \o MaterializeAll(csv_name, Tail(ranges), names, regions)
             ELSE <<m>>

NoPass == [sub |-> 0, csv |-> "", frags |-> <<>>, ok |-> TRUE,
           final |-> [cols |-> <<>>, rows |-> <<>>]]

\* .value.dropna() of the ModeledYears table read with index=1: a row is kept
\* when no cell beside the index (the year) is missing.   (runner.py:105-109)
KeptPeriodsMutant(table) == table
KeptPeriods(table) == SelectSeq(table, LAMBDA r : r[2] # NA)

(***************************************************************************)
(* The settings files (lines 128-183).  A settings range is read as a      *)
(* Series: the first column is the key, the second the value; a line of    *)
(* the file written is the key followed, with nothing between, by the      *)
(* text of the value.                                                      *)
(***************************************************************************)
SettingsFiles ==
    <<"genx_settings.yml", "multi_stage_settings.yml",
      "time_domain_reduction_settings.yml", "highs_settings.yml">>

\* The files of the settings template folder of line 130: the four files
\* and one the export does not write; "T" is the template's own content.
TemplateFiles ==
    [n \in Range(SettingsFiles) \cup {"cplex_settings.yml"} |-> <<<<"template:", "T">>>>]

\* isinstance(x, float) and isinstance(x, bool) for a cell of the workbook.
IsFloat(cell) == cell = "0.5" \/ cell \in Range(FloatCells)
IsBool(cell) == cell \in {"True", "False"}

\* int(x) for a float or a bool: the fraction is cut off.
IntText(cell) ==
    CASE cell = "True" -> "1"
      [] cell = "False" -> "0"
      [] cell = "0.5" -> "0"
      [] OTHER -> AsInt(cell)

\* A value column whose present cells are all floats is a float64 Series
\* and its missing cells are NaN; otherwise it is an object Series and they
\* are None.
MissingIsNaN(rows) == \A i \in DOMAIN rows : rows[i][2] # NA => IsFloat(rows[i][2])

\* Lines 135-142: .astype(int) on the whole Series.  A text or a missing
\* value raises.
EncodeGenx(rows) ==
    [ok |-> \A i \in DOMAIN rows : IsFloat(rows[i][2]) \/ IsBool(rows[i][2]),
     lines |-> [i \in DOMAIN rows |-> <<rows[i][1], IntText(rows[i][2])>>]]

\* Lines 144-151: int(x) for a float, bool or int, x otherwise.  int(NaN)
\* raises; None stays and is written as the text "None".
EncodeMultiStage(rows) ==
    [ok |-> ~(MissingIsNaN(rows) /\ \E i \in DOMAIN rows : rows[i][2] = NA),
     lines |-> [i \in DOMAIN rows |->
        <<rows[i][1],
          IF rows[i][2] = NA THEN "None"
          ELSE IF IsFloat(rows[i][2]) \/ IsBool(rows[i][2]) THEN IntText(rows[i][2])
          ELSE rows[i][2]>>]]

\* Lines 153-168: a missing value becomes " " first, then as lines 144-151.
\* The last .replace({"None": ""}) looks for a whole line equal to "None"
\* and finds none, the key being part of the line.
EncodeTimeDomain(rows) ==
    [ok |-> TRUE,
     lines |-> [i \in DOMAIN rows |->
        <<rows[i][1],
          IF rows[i][2] = NA THEN " "
          ELSE IF IsFloat(rows[i][2]) \/ IsBool(rows[i][2]) THEN IntText(rows[i][2])
          ELSE rows[i][2]>>]]

\* Lines 170-181: a missing value becomes " "; nothing is turned into an
\* integer.
EncodeHighs(rows) ==
    [ok |-> TRUE,
     lines |-> [i \in DOMAIN rows |->
        <<rows[i][1], IF rows[i][2] = NA THEN " " ELSE rows[i][2]>>]]

Encode(file, rows) ==
    CASE file = "genx_settings.yml" -> EncodeGenx(rows)
      [] file = "multi_stage_settings.yml" -> EncodeMultiStage(rows)
      [] file = "time_domain_reduction_settings.yml" -> EncodeTimeDomain(rows)
      [] OTHER -> EncodeHighs(rows)

\* The steps of lines 131-181, in order.
SettingsSteps == <<"rmtree", "copytree">> \o SettingsFiles

NoSettings == [exists |-> FALSE, files |-> <<>>]

\* One step of lines 131-181 on the settings folder: [ok, dir].
SettingsStepMutant(step, dir, blocks) ==
    IF step = "rmtree" THEN [ok |-> TRUE, dir |-> dir]
    ELSE IF step = "copytree"
    THEN [ok |-> TRUE, dir |-> [exists |-> TRUE, files |-> TemplateFiles @@ dir.files]]
    ELSE LET e == Encode(step, blocks[step])
         IN  IF e.ok
             THEN [ok |-> TRUE, dir |-> [dir EXCEPT !.files = (step :> e.lines) @@ @]]
             ELSE [ok |-> FALSE, dir |-> dir]
SettingsStep(step, dir, blocks) ==
    IF step = "rmtree" THEN [ok |-> TRUE, dir |-> NoSettings]
    ELSE IF step = "copytree"
    THEN [ok |-> ~dir.exists, dir |-> IF dir.exists THEN dir
                                      ELSE [exists |-> TRUE, files |-> TemplateFiles]]
    ELSE LET e == Encode(step, blocks[step])
         IN  IF e.ok /\ dir.exists
             THEN [ok |-> TRUE, dir |-> [dir EXCEPT !.files = (step :> e.lines) @@ @]]
             ELSE [ok |-> FALSE, dir |-> dir]

\* The steps in turn, up to and including the first that raises.
RECURSIVE RunSettings(_, _, _)
RunSettings(steps, dir, blocks) ==
    IF steps = <<>> THEN [ok |-> TRUE, dir |-> dir]
    ELSE LET r == SettingsStep(Head(steps), dir, blocks)
         IN  IF r.ok THEN RunSettings(Tail(steps), r.dir, blocks) ELSE r

\* Lines 96-116: the case root is made, the periods are read and
\* planning_periods.csv is written.  .index.astype(int) raises on a year that
\* is no number, before anything is written.
BeginExport ==
    /\ pc = "start"
    /\ LET kept == KeptPeriods(modeledYears)
       IN  IF \E k \in DOMAIN kept : AsInt(kept[k][1]) = "ERR"
           THEN /\ pc' = "failed"
                /\ UNCHANGED <<planning_periods, files>>
           ELSE /\ planning_periods' = [k \in DOMAIN kept |-> AsInt(kept[k][1])]
                /\ files' = (PeriodsFile :>
                                [cols |-> <<"Planning Period", "Period ID">>, rows |-> kept])
                            @@ files
                /\ pc' = "period"
    /\ counter' = 1
    /\ UNCHANGED <<wbNames, wbFormulas, sheet, modeledYears, activeYear, csv_names, gi,
                   log, reads, last, exportCalls, run, snap>>
    /\ UNCHANGED <<importVars, opsVars>>
    /\ UNCHANGED <<settingsVars, requests, schedVars>>

\* BeginPeriod with lines 119 and 120 exchanged: the recompute runs before the
\* year is written.
BeginPeriodMutant ==
    /\ pc = "period"
    /\ counter <= Len(planning_periods)
    /\ activeYear' = planning_periods[counter]
    /\ sheet' = Calculate(wbFormulas, activeYear)
    /\ exportCalls' = Append(exportCalls, counter)
    /\ csv_names' = Catalog(wbNames, 1, <<>>)
    /\ gi' = 1
    /\ pc' = "targets"
    /\ UNCHANGED <<wbNames, wbFormulas, modeledYears, planning_periods, counter, files,
                   log, reads, last, run, snap>>
    /\ UNCHANGED <<importVars, opsVars>>
    /\ requests' = requests + 1
    /\ UNCHANGED <<settingsVars, schedVars>>

\* Lines 118-123 and 18-21: the year of the next period goes into ActiveYear,
\* the workbook is recomputed, save_case is entered and groups the names.
BeginPeriod ==
    /\ pc = "period"
    /\ counter <= Len(planning_periods)
    /\ activeYear' = planning_periods[counter]
    /\ sheet' = Calculate(wbFormulas, planning_periods[counter])
    /\ exportCalls' = Append(exportCalls, counter)
    /\ csv_names' = Catalog(wbNames, 1, <<>>)
    /\ gi' = 1
    /\ pc' = "targets"
    /\ UNCHANGED <<wbNames, wbFormulas, modeledYears, planning_periods, counter, files,
                   log, reads, last, run, snap>>
    /\ UNCHANGED <<importVars, opsVars>>
    /\ requests' = requests + 1
    /\ UNCHANGED <<settingsVars, schedVars>>

\* Line 119 and the call of line 120: the year of the next period goes into
\* ActiveYear and the recompute is requested.
RequestRecompute ==
    /\ pc = "period"
    /\ counter <= Len(planning_periods)
    /\ activeYear' = planning_periods[counter]
    /\ requests' = requests + 1
    /\ pc' = "calculating"
    /\ UNCHANGED <<wbNames, wbFormulas, sheet, modeledYears, planning_periods, counter,
                   csv_names, gi, files, log, reads, last, exportCalls, run, snap>>
    /\ UNCHANGED <<importVars, opsVars>>
    /\ UNCHANGED <<settingsVars, schedVars>>

\* A recompute that never reports a settled state.
RecomputeSettlesMutant ==
    /\ pc = "calculating"
    /\ UNCHANGED <<exportVars, importVars, opsVars>>

\* wb.app.calculate() returns (line 120); lines 122-123 and 18-21 follow:
\* save_case is entered and groups the names.
RecomputeSettles ==
    /\ pc = "calculating"
    /\ sheet' = Calculate(wbFormulas, activeYear)
    /\ exportCalls' = Append(exportCalls, counter)
    /\ csv_names' = Catalog(wbNames, 1, <<>>)
    /\ gi' = 1
    /\ pc' = "targets"
    /\ UNCHANGED <<wbNames, wbFormulas, modeledYears, activeYear, planning_periods, counter,
                   files, log, reads, last, run, snap>>
    /\ UNCHANGED <<importVars, opsVars>>
    /\ UNCHANGED <<settingsVars, requests, schedVars>>

\* One pass of the loop of lines 22-93: every range of the group is read and
\* shaped, the tables are joined and the file is written.  A step that raises
\* ends save_case and save_multistage_case; nothing is written for the group.
SaveTarget ==
    /\ pc = "targets"
    /\ gi <= Len(csv_names)
    /\ LET g == csv_names[gi]
           ms == MaterializeAll(g.csv, g.ranges, wbNames, sheet)
           ok == \A k \in DOMAIN ms : ms[k].ok
           final == Concat([k \in DOMAIN ms |-> ms[k].df])
       IN  /\ reads' = reads \cup {g.ranges[k] : k \in DOMAIN ms}
           /\ log' = IF \E k \in DOMAIN ms : ms[k].diag
                     THEN log \cup {[sub |-> counter, csv |-> g.csv]}
                     ELSE log
           /\ last' = [sub |-> counter, csv |-> g.csv, frags |-> ms, ok |-> ok,
                       final |-> IF ok THEN final ELSE NoPass.final]
           /\ IF ok
              THEN /\ files' = (FilePath(counter, PathOf(g.csv)) :> final) @@ files
                   /\ gi' = gi + 1
                   /\ pc' = "targets"
              ELSE /\ pc' = "failed"
                   /\ UNCHANGED <<files, gi>>
    /\ UNCHANGED <<wbNames, wbFormulas, sheet, modeledYears, activeYear, planning_periods,
                   counter, csv_names, exportCalls, run, snap>>
    /\ UNCHANGED <<importVars, opsVars>>
    /\ UNCHANGED <<settingsVars, requests, schedVars>>

\* save_case returns; line 124.
EndPeriod ==
    /\ pc = "targets"
    /\ gi > Len(csv_names)
    /\ counter' = counter + 1
    /\ pc' = "period"
    /\ UNCHANGED <<wbNames, wbFormulas, sheet, modeledYears, activeYear, planning_periods,
                   csv_names, gi, files, log, reads, last, exportCalls, run, snap>>
    /\ UNCHANGED <<importVars, opsVars>>
    /\ UNCHANGED <<settingsVars, requests, schedVars>>

\* The loop of line 118 is exhausted: lines 128-185.  settings/ is removed,
\* copied from the template and the four files are written over the copy.
SaveSettings ==
    /\ pc = "period"
    /\ counter > Len(planning_periods)
    /\ LET r == RunSettings(SettingsSteps, settingsDir, wbSettings)
       IN  /\ settingsDir' = r.dir
           /\ pc' = IF r.ok THEN "done" ELSE "failed"
    /\ UNCHANGED <<wbNames, wbFormulas, sheet, modeledYears, activeYear, planning_periods,
                   counter, csv_names, gi, files, log, reads, last, exportCalls, run, snap>>
    /\ UNCHANGED <<importVars, opsVars>>
    /\ UNCHANGED <<wbSettings, settingsWas, requests, schedVars>>

\* Lines 128-132 as a step of their own.
RemoveSettings ==
    /\ pc = "period"
    /\ counter > Len(planning_periods)
    /\ settingsDir' = SettingsStep("rmtree", settingsDir, wbSettings).dir
    /\ pc' = "copytree"
    /\ UNCHANGED <<wbNames, wbFormulas, sheet, modeledYears, activeYear, planning_periods,
                   counter, csv_names, gi, files, log, reads, last, exportCalls, run, snap>>
    /\ UNCHANGED <<importVars, opsVars>>
    /\ UNCHANGED <<wbSettings, settingsWas, requests, schedVars>>

\* The step after step in lines 133-183; "done" after the last.
StepAfter(step) ==
    LET i == CHOOSE k \in DOMAIN SettingsSteps : SettingsSteps[k] = step
    IN  IF i = Len(SettingsSteps) THEN "done" ELSE SettingsSteps[i + 1]

\* Line 133, and each of the four writes of lines 135-181, as a step.
WriteSettings ==
    /\ pc \in Range(Tail(SettingsSteps))
    /\ LET r == SettingsStep(pc, settingsDir, wbSettings)
       IN  /\ settingsDir' = r.dir
           /\ pc' = IF r.ok THEN StepAfter(pc) ELSE "failed"
    /\ UNCHANGED <<wbNames, wbFormulas, sheet, modeledYears, activeYear, planning_periods,
                   counter, csv_names, gi, files, log, reads, last, exportCalls, run, snap>>
    /\ UNCHANGED <<importVars, opsVars>>
    /\ UNCHANGED <<wbSettings, settingsWas, requests, schedVars>>

\* save_multistage_case is invoked a second time on the same workbook and the
\* same case root.
Rerun ==
    /\ pc \in {"done", "failed"}
    /\ run = 1
    /\ run' = 2
    /\ snap' = files
    /\ pc' = "start"
    /\ planning_periods' = <<>>
    /\ counter' = 1
    /\ csv_names' = <<>>
    /\ gi' = 1
    /\ log' = {}
    /\ reads' = {}
    /\ last' = NoPass
    /\ exportCalls' = <<>>
    /\ UNCHANGED <<wbNames, wbFormulas, sheet, modeledYears, activeYear, files>>
    /\ UNCHANGED <<importVars, opsVars>>
    /\ requests' = 0
    /\ settingsWas' = settingsDir
    /\ UNCHANGED <<settingsDir, wbSettings, schedVars>>


\* The workbook is edited after a finished export and save_multistage_case
\* is invoked again on the same case root: the last row of ModeledYears is
\* deleted (rows), the last name is deleted (names), or both.
RerunEdited ==
    /\ pc = "done"
    /\ run = 1
    /\ \E rows, names \in BOOLEAN :
          /\ rows \/ names
          /\ rows => Len(modeledYears) >= 1
          /\ names => Len(wbNames) >= 1
          /\ modeledYears' = IF rows THEN SubSeq(modeledYears, 1, Len(modeledYears) - 1)
                             ELSE modeledYears
          /\ wbNames' = IF names THEN SubSeq(wbNames, 1, Len(wbNames) - 1) ELSE wbNames
          /\ wbFormulas' = IF names THEN SubSeq(wbFormulas, 1, Len(wbFormulas) - 1)
                           ELSE wbFormulas
          /\ sheet' = IF names THEN SubSeq(sheet, 1, Len(sheet) - 1) ELSE sheet
    /\ run' = 2
    /\ snap' = files
    /\ pc' = "start"
    /\ planning_periods' = <<>>
    /\ counter' = 1
    /\ csv_names' = <<>>
    /\ gi' = 1
    /\ log' = {}
    /\ reads' = {}
    /\ last' = NoPass
    /\ exportCalls' = <<>>
    /\ UNCHANGED <<activeYear, files>>
    /\ UNCHANGED <<importVars, opsVars>>
    /\ requests' = 0
    /\ settingsWas' = settingsDir
    /\ UNCHANGED <<settingsDir, wbSettings, schedVars>>

\* The call of the next step that writes to or removes from the case root;
\* "none" when the next step is none of them.
IOStep ==
    CASE pc = "start" -> "planning_periods.csv"
      [] pc = "targets" /\ gi <= Len(csv_names) -> "to_csv"
      [] pc = "period" /\ counter > Len(planning_periods) /\ settingsDir.exists -> "rmtree"
      [] pc \in Range(Tail(SettingsSteps)) -> pc
      [] OTHER -> "none"

\* A failure that undoes what the export wrote.
IOFailureMutant ==
    /\ fault = "none"
    /\ IOStep # "none"
    /\ fault' = IOStep
    /\ pc' = "failed"
    /\ files' = <<>>
    /\ UNCHANGED <<wbNames, wbFormulas, sheet, modeledYears, activeYear, planning_periods,
                   counter, csv_names, gi, log, reads, last, exportCalls, run, snap>>
    /\ UNCHANGED <<importVars, opsVars>>
    /\ UNCHANGED <<settingsVars, requests, parked, who>>

\* The call raises an I/O error: there is no try in save_case or
\* save_multistage_case, so the exception leaves both.  A failing rmtree may
\* have removed any of the files of settings/ already.
IOFailure ==
    /\ fault = "none"
    /\ IOStep # "none"
    /\ fault' = IOStep
    /\ pc' = "failed"
    /\ IF IOStep = "rmtree"
       THEN \E left \in SUBSET DOMAIN settingsDir.files :
               settingsDir' = [settingsDir EXCEPT !.files = [n \in left |-> settingsDir.files[n]]]
       ELSE UNCHANGED settingsDir
    /\ UNCHANGED <<wbNames, wbFormulas, sheet, modeledYears, activeYear, planning_periods,
                   counter, csv_names, gi, files, log, reads, last, exportCalls, run, snap>>
    /\ UNCHANGED <<importVars, opsVars>>
    /\ UNCHANGED <<wbSettings, settingsWas, requests, parked, who>>

\* The state an invocation of save_multistage_case keeps to itself: its
\* workbook and its locals.
Locals ==
    [wbNames |-> wbNames, wbFormulas |-> wbFormulas, sheet |-> sheet,
     modeledYears |-> modeledYears, activeYear |-> activeYear, pc |-> pc,
     planning_periods |-> planning_periods, counter |-> counter, csv_names |-> csv_names,
     gi |-> gi, log |-> log, reads |-> reads, last |-> last, exportCalls |-> exportCalls,
     wbSettings |-> wbSettings, requests |-> requests]

\* A switch after which each invocation finds the case root empty.
ContextSwitchMutant ==
    /\ parked.pc # "idle"
    /\ parked' = Locals
    /\ wbNames' = parked.wbNames
    /\ wbFormulas' = parked.wbFormulas
    /\ sheet' = parked.sheet
    /\ modeledYears' = parked.modeledYears
    /\ activeYear' = parked.activeYear
    /\ pc' = parked.pc
    /\ planning_periods' = parked.planning_periods
    /\ counter' = parked.counter
    /\ csv_names' = parked.csv_names
    /\ gi' = parked.gi
    /\ log' = parked.log
    /\ reads' = parked.reads
    /\ last' = parked.last
    /\ exportCalls' = parked.exportCalls
    /\ wbSettings' = parked.wbSettings
    /\ requests' = parked.requests
    /\ who' = 3 - who
    /\ files' = <<>>
    /\ UNCHANGED <<settingsDir, settingsWas, run, snap, fault>>
    /\ UNCHANGED <<importVars, opsVars>>

\* A second invocation against the same case root runs, from its own
\* workbook, while the first stands between two of its steps, and the other
\* way round.  Line 100 only warns that the folder exists: no lock is taken
\* and nothing is checked, so a switch is possible between any two steps.
\* The case root (files, settings/) is shared.
ContextSwitch ==
    /\ parked.pc # "idle"
    /\ parked' = Locals
    /\ wbNames' = parked.wbNames
    /\ wbFormulas' = parked.wbFormulas
    /\ sheet' = parked.sheet
    /\ modeledYears' = parked.modeledYears
    /\ activeYear' = parked.activeYear
    /\ pc' = parked.pc
    /\ planning_periods' = parked.planning_periods
    /\ counter' = parked.counter
    /\ csv_names' = parked.csv_names
    /\ gi' = parked.gi
    /\ log' = parked.log
    /\ reads' = parked.reads
    /\ last' = parked.last
    /\ exportCalls' = parked.exportCalls
    /\ wbSettings' = parked.wbSettings
    /\ requests' = parked.requests
    /\ who' = 3 - who
    /\ UNCHANGED <<files, settingsDir, settingsWas, run, snap, fault>>
    /\ UNCHANGED <<importVars, opsVars>>

NextOnce == BeginExport \/ BeginPeriod \/ SaveTarget \/ EndPeriod \/ SaveSettings

Next == NextOnce \/ Rerun

(***************************************************************************)
(* load_case_results.                                                      *)
(***************************************************************************)
Label(base, suffix) == [base |-> base, suffix |-> suffix]

\* The label a period of no known year gives (None).
NoneLabel == Label("None", "")

\* The label that is the integer year y.
YearLabel(y) == Label("int", y)

Entry(head, tail, ext, dir) == [head |-> head, tail |-> tail, ext |-> ext, dir |-> dir]

\* base_folder / "results" / "results_p<tail>"
PeriodDir(tail) == Entry("results_p", tail, "", TRUE)

\* base_folder / "results" / f"{base_folder.stem}.xlsm"   (runner.py:262)
ReportEntry(stem) == Entry(stem.head, stem.tail, ".xlsm", FALSE)

\* (base_folder / "results").glob("results_p*")           (runner.py:195)
Globbed(dir) == {e \in dir : e.head = "results_p"}

\* int(path.stem.split("results_p")[-1]); -1 when int() raises.
\*                                                         (runner.py:196)
TailNumber(tail) ==
    CASE tail = "1" -> 1
      [] tail = "2" -> 2
      [] tail = "3" -> 3
      [] tail = "7" -> 7
      [] tail = "10" -> 10
      [] OTHER -> -1

\* The entries sorted by name, as text: "results_p10" before "results_p2".
SortedGlobsMutant(dir) ==
    LET g == Globbed(dir)
        rank(t) == CASE t = "1" -> 1 [] t = "10" -> 2 [] t = "2" -> 3 [] t = "3" -> 4
                     [] OTHER -> 5
    IN  {q \in [1..Cardinality(g) -> g] :
            /\ \A i, j \in DOMAIN q : q[i] = q[j] => i = j
            /\ \A i, j \in DOMAIN q : i < j => rank(q[i].tail) <= rank(q[j].tail)}

\* sorted(..., key=...): the orders of the entries by ascending number;
\* entries of equal number stand in the order the listing gave them.
SortedGlobs(dir) ==
    LET g == Globbed(dir)
    IN  {q \in [1..Cardinality(g) -> g] :
            /\ \A i, j \in DOMAIN q : q[i] = q[j] => i = j
            /\ \A i, j \in DOMAIN q : i < j => TailNumber(q[i].tail) <= TailNumber(q[j].tail)}

\* f"results_{k}" for a period id k of planning_periods.csv.
\*                                                         (runner.py:192)
IdTail(id) ==
    CASE id = "p1" -> "1"
      [] id = "p2" -> "2"
      [] id = "p3" -> "3"
      [] id = "p10" -> "10"
      [] OTHER -> id

\* A Python dict as the sequence of its items: setting a key that is there
\* keeps its place and replaces its value.
DictPut(d, k, v) ==
    IF \E i \in DOMAIN d : d[i].key = k
    THEN [i \in DOMAIN d |-> IF d[i].key = k THEN [key |-> k, val |-> v] ELSE d[i]]
    ELSE Append(d, [key |-> k, val |-> v])

RECURSIVE DictOf(_, _)
DictOf(items, d) ==
    IF items = <<>> THEN d
    ELSE DictOf(Tail(items), DictPut(d, Head(items).key, Head(items).val))

\* Lines 189-192: the periods of planning_periods.csv, keyed by its last
\* column, then by results folder.
PeriodsFromCsv(rows) ==
    LET byId == DictOf([i \in DOMAIN rows |-> [key |-> rows[i][2], val |-> AsInt(rows[i][1])]],
                       <<>>)
    IN  DictOf([i \in DOMAIN byId |->
                   [key |-> PeriodDir(IdTail(byId[i].key)), val |-> YearLabel(byId[i].val)]],
               <<>>)

\* Line 198.
PeriodsFromGlob(q) == DictOf([i \in DOMAIN q |-> [key |-> q[i], val |-> NoneLabel]], <<>>)

\* The mapping of lines 207 and 217: prefix + number of the folder -> period.
RenameMap(prefix, pr) ==
    DictOf([i \in DOMAIN pr |-> [key |-> Label(prefix, pr[i].key.tail), val |-> pr[i].val]],
           <<>>)

\* A rename that leaves every label as it is.
RenameMutant(df, mapping) == df

\* df.rename(columns=mapping)
Rename(df, mapping) ==
    [df EXCEPT !.cols = [j \in DOMAIN df.cols |->
        IF \E i \in DOMAIN mapping : mapping[i].key = df.cols[j]
        THEN mapping[CHOOSE i \in DOMAIN mapping : mapping[i].key = df.cols[j]].val
        ELSE df.cols[j]]]

\* (x / 1e6).round(3), in thousandths: the nearest thousandth of v
\* millionths, a tie going to the even one (numpy's rint).
RescaleMutant(v) == v \div 1000
Rescale(v) ==
    LET q == v \div 1000
        r == v % 1000
    IN  IF r < 500 THEN q
        ELSE IF r > 500 THEN q + 1
        ELSE IF q % 2 = 0 THEN q ELSE q + 1

\* What the files of results/results_p<tail> hold, for the one resource of
\* the model: capacity.csv (NewCap, RetCap), capacityfactor.csv and the
\* AnnualSum row of power.csv.  Capacities and factors are whole thousandths.
PeriodData(tail) ==
    LET n == TailNumber(tail)
    IN  [NewCap |-> 10 * n, RetCap |-> n, CapacityFactor |-> 100 * n,
         AnnualSum |-> 1000500 * n]

\* path / "<file>.csv" can be read: path is a folder of results/.
Readable(dir, path) == path \in dir /\ path.dir

\* pd.concat({period: series ...}, axis=1): one column per key of the dict.
ConcatByPeriod(pr, field) ==
    LET d == DictOf([i \in DOMAIN pr |->
                        [key |-> pr[i].val, val |-> PeriodData(pr[i].key.tail)[field]]], <<>>)
    IN  [cols |-> [i \in DOMAIN d |-> d[i].key], rows |-> <<[i \in DOMAIN d |-> d[i].val]>>]

\* An exception leaves load_case_results.
ImportFailed ==
    /\ ipc' = "failed"
    /\ UNCHANGED <<caseStem, resultsDir, periodsCsv, capsRaw, costsRaw, periods_range,
                   written, wbResults, irun, isnap>>

\* range(name).clear_contents(); range(name).value = table
WriteRange(name, table) ==
    /\ written' = (name :> table) @@ written
    /\ wbResults' = (name :> table) @@ wbResults
    /\ UNCHANGED <<caseStem, resultsDir, periodsCsv, capsRaw, costsRaw, periods_range,
                   irun, isnap>>

\* Lines 188-201: the period map is read from planning_periods.csv when the
\* file exists, and made of the results_p* entries otherwise.
LoadPeriods ==
    /\ ipc = "start"
    /\ IF periodsCsv.present
       THEN /\ periods_range' = PeriodsFromCsv(periodsCsv.rows)
            /\ ipc' = "capacity"
       ELSE IF \E e \in Globbed(resultsDir) : TailNumber(e.tail) = -1
       THEN /\ ipc' = "failed"
            /\ UNCHANGED periods_range
       ELSE /\ \E q \in SortedGlobs(resultsDir) : periods_range' = PeriodsFromGlob(q)
            /\ ipc' = "capacity"
    /\ UNCHANGED <<caseStem, resultsDir, periodsCsv, capsRaw, costsRaw, written, wbResults,
                   irun, isnap>>
    /\ UNCHANGED <<exportVars, opsVars>>

\* Lines 203-211.
LoadCapacity ==
    /\ ipc = "capacity"
    /\ LET kept == Project(capsRaw, SelectSeq(Indices(NCols(capsRaw)),
                              LAMBDA j : capsRaw.cols[j].base # "StartCap_p"))
           named == Rename(kept, RenameMap("EndCap_p", periods_range))
           zone == {j \in 1..NCols(named) : named.cols[j] = Label("Zone", "")}
       IN  IF zone = {}
           THEN ImportFailed
           ELSE /\ WriteRange("capacities_multi_stage",
                      Project(named, SelectSeq(Indices(NCols(named)), LAMBDA j : j \notin zone)))
                /\ ipc' = "costs"
    /\ UNCHANGED <<exportVars, opsVars>>

\* Lines 214-220.
LoadCosts ==
    /\ ipc = "costs"
    /\ LET scaled == [costsRaw EXCEPT !.rows =
                         [i \in DOMAIN costsRaw.rows |->
                             [j \in DOMAIN costsRaw.rows[i] |-> Rescale(costsRaw.rows[i][j])]]]
       IN  WriteRange("costs_multi_stage",
                      Rename(scaled, RenameMap("TotalCosts_p", periods_range)))
    /\ ipc' = "builds"
    /\ UNCHANGED <<exportVars, opsVars>>

\* The dict comprehensions of lines 229, 234-238 and 247 read a file of every
\* folder of the period map; pd.concat raises on an empty dict.
CanCombine ==
    /\ periods_range # <<>>
    /\ \A i \in DOMAIN periods_range : Readable(resultsDir, periods_range[i].key)

\* Lines 223-231.
LoadBuilds ==
    /\ ipc = "builds"
    /\ IF ~CanCombine
       THEN ImportFailed
       ELSE LET new == ConcatByPeriod(periods_range, "NewCap")
                ret == ConcatByPeriod(periods_range, "RetCap")
            IN  /\ WriteRange("capacities",
                       [new EXCEPT !.rows = <<[j \in DOMAIN new.cols |->
                                                  new.rows[1][j] - ret.rows[1][j]]>>])
                /\ ipc' = "cfs"
    /\ UNCHANGED <<exportVars, opsVars>>

\* Lines 233-242.
LoadCFs ==
    /\ ipc = "cfs"
    /\ IF ~CanCombine
       THEN ImportFailed
       ELSE /\ WriteRange("cfs", ConcatByPeriod(periods_range, "CapacityFactor"))
            /\ ipc' = "generation"
    /\ UNCHANGED <<exportVars, opsVars>>

\* Lines 244-253.
LoadGeneration ==
    /\ ipc = "generation"
    /\ IF ~CanCombine
       THEN ImportFailed
       ELSE LET gen == ConcatByPeriod(periods_range, "AnnualSum")
            IN  /\ WriteRange("generation",
                       [gen EXCEPT !.rows = <<[j \in DOMAIN gen.cols |->
                                                  Rescale(gen.rows[1][j])]>>])
                /\ ipc' = "report"
    /\ UNCHANGED <<exportVars, opsVars>>

\* Lines 256-267: the copy of the results sheet is saved as
\* results/<case>.xlsm.
SaveReport ==
    /\ ipc = "report"
    /\ resultsDir' = resultsDir \cup {ReportEntry(caseStem)}
    /\ ipc' = "done"
    /\ UNCHANGED <<caseStem, periodsCsv, capsRaw, costsRaw, periods_range, written,
                   wbResults, irun, isnap>>
    /\ UNCHANGED <<exportVars, opsVars>>

\* load_case_results is invoked a second time on the same case root.
ImportRerun ==
    /\ ipc \in {"done", "failed"}
    /\ irun = 1
    /\ irun' = 2
    /\ isnap' = written
    /\ written' = <<>>
    /\ periods_range' = <<>>
    /\ ipc' = "start"
    /\ UNCHANGED <<caseStem, resultsDir, periodsCsv, capsRaw, costsRaw, wbResults>>
    /\ UNCHANGED <<exportVars, opsVars>>

\* The text of an ordinal in a folder name (f"inputs_p{counter}").
OrdinalText == <<"1", "2", "3", "4">>

\* load_case_results is invoked on the case root a finished export left,
\* once the engine has written results/results_p<k> for every inputs_p<k>:
\* line 188 finds the planning_periods.csv of line 114.
EnterImport ==
    /\ pc = "done"
    /\ ipc = "idle"
    /\ periodsCsv' = [present |-> TRUE, rows |-> files[PeriodsFile].rows]
    /\ resultsDir' = {PeriodDir(OrdinalText[k]) : k \in DOMAIN exportCalls}
    /\ ipc' = "start"
    /\ UNCHANGED <<caseStem, capsRaw, costsRaw, periods_range, written, wbResults, irun, isnap>>
    /\ UNCHANGED <<exportVars, opsVars>>

NextImport ==
    \/ LoadPeriods \/ LoadCapacity \/ LoadCosts \/ LoadBuilds \/ LoadCFs
    \/ LoadGeneration \/ SaveReport \/ ImportRerun

(***************************************************************************)
(* The steps of the container runner, of the event handler and of the      *)
(* container cleanup.                                                      *)
(***************************************************************************)
\* The entries GenX may leave under results/: files, a folder, and a file
\* whose name holds a backslash.
ResultEntries ==
    {[rel |-> "power.csv", isFile |-> TRUE], [rel |-> "p1", isFile |-> FALSE],
     [rel |-> "p1/cap.csv", isFile |-> TRUE], [rel |-> "p1\\cap.csv", isFile |-> TRUE]}

ResultTrees ==
    {[exists |-> FALSE, entries |-> <<>>]} \cup
    {[exists |-> TRUE, entries |-> s] :
        s \in {q \in InjSeqsUpTo(ResultEntries, MaxFiles) :
                  (\E i \in DOMAIN q : q[i].rel = "p1/cap.csv") =>
                     (\E i \in DOMAIN q : q[i].rel = "p1")}}

\* str.startswith over the case names of the model.
StartsWith(text, prefix) == text = prefix \/ (text = "c10" /\ prefix = "c1")

\* blob_name.replace('\\', '/')                    (run_genx_case.py:197)
BlobRel(rel) == IF rel = "p1\\cap.csv" THEN "p1/cap.csv" ELSE rel

\* f"{self.case_name}/results/{relative_path}"    (run_genx_case.py:196-197)
BlobName(case, rel) == [case |-> case, rel |-> BlobRel(rel)]

\* f"{self.case_name}/results/_summary.json"          (run_genx_case.py:221)
SummaryBlob(case) == [case |-> case, rel |-> "_summary.json"]

\* A stage returned: run goes on after a success and leaves with
\* sys.exit(1) after a failure.                   (run_genx_case.py:277-292)
StageReturns(name, result, next) ==
    /\ stages' = Append(stages, [name |-> name, result |-> result])
    /\ rpc' = IF result = "ok" THEN next ELSE "exited"
    /\ exitStatus' = IF result = "ok" THEN exitStatus ELSE 1

\* Lines 272-275 and 237-262: no case name, the example is run and the
\* process exits with its success.
RunFallback ==
    /\ rpc = "start"
    /\ case_name = ""
    /\ \E success \in BOOLEAN :
          /\ stages' = Append(stages, [name |-> "fallback",
                                       result |-> IF success THEN "ok" ELSE "failed"])
          /\ exitStatus' = IF success THEN 0 ELSE 1
    /\ rpc' = "exited"
    /\ UNCHANGED <<case_name, blob_service_client, inputBlobs, caseDir, resultsTree,
                   outputBlobs, uploaded_files, ui>>
    /\ UNCHANGED <<exportVars, importVars, triggerVars, monitorVars>>

\* Lines 278-280 and 56-111: every blob whose name starts with the case name
\* and holds no "/results/" is downloaded; an exception of the listing or of
\* a download leaves the files downloaded before it.
DownloadCaseData ==
    /\ rpc = "start"
    /\ case_name # ""
    /\ IF ~blob_service_client
       THEN /\ StageReturns("download", "noclient", "optimize")
            /\ UNCHANGED caseDir
       ELSE LET wanted == {b \in inputBlobs : StartsWith(b.case, case_name) /\ ~b.results}
            IN  \E got \in SUBSET wanted, raised \in BOOLEAN :
                   /\ ~raised => got = wanted
                   /\ caseDir' = [exists |-> TRUE, files |-> got]
                   /\ StageReturns("download",
                                   IF raised THEN "raised"
                                   ELSE IF got = {} THEN "empty" ELSE "ok",
                                   "optimize")
    /\ UNCHANGED <<case_name, blob_service_client, inputBlobs, resultsTree, outputBlobs,
                   uploaded_files, ui>>
    /\ UNCHANGED <<exportVars, importVars, triggerVars, monitorVars>>

\* A run that uploads whatever the optimization returned.
RunGenxOptimizationMutant ==
    /\ rpc = "optimize"
    /\ \E how \in {"ok", "nonzero", "timeout", "error"}, tree \in ResultTrees :
          /\ resultsTree' = tree
          /\ stages' = Append(stages, [name |-> "optimize", result |-> how])
    /\ rpc' = "upload"
    /\ UNCHANGED <<case_name, blob_service_client, inputBlobs, caseDir, outputBlobs,
                   uploaded_files, ui, exitStatus>>
    /\ UNCHANGED <<exportVars, importVars, triggerVars, monitorVars>>

\* Lines 283-285 and 113-172: julia runs on the case folder; it returns 0 or
\* another code, runs into the timeout, or subprocess.run raises.  Whatever
\* the outcome, GenX may have written under results/.
RunGenxOptimization ==
    /\ rpc = "optimize"
    /\ IF ~caseDir.exists
       THEN /\ StageReturns("optimize", "nodir", "upload")
            /\ UNCHANGED resultsTree
       ELSE \E how \in {"ok", "nonzero", "timeout", "error"}, tree \in ResultTrees :
               /\ resultsTree' = tree
               /\ StageReturns("optimize", how, "upload")
    /\ UNCHANGED <<case_name, blob_service_client, inputBlobs, caseDir, outputBlobs,
                   uploaded_files, ui>>
    /\ UNCHANGED <<exportVars, importVars, triggerVars, monitorVars>>

\* Lines 288 and 176-189: upload_results is entered.
BeginUpload ==
    /\ rpc = "upload"
    /\ IF ~blob_service_client
       THEN StageReturns("upload", "noclient", "exited")
       ELSE IF ~resultsTree.exists
       THEN StageReturns("upload", "noresults", "exited")
       ELSE /\ stages' = Append(stages, [name |-> "upload", result |-> "running"])
            /\ rpc' = "uploading"
            /\ UNCHANGED exitStatus
    /\ uploaded_files' = <<>>
    /\ ui' = 1
    /\ UNCHANGED <<case_name, blob_service_client, inputBlobs, caseDir, resultsTree,
                   outputBlobs>>
    /\ UNCHANGED <<exportVars, importVars, triggerVars, monitorVars>>

\* An upload that does not note the blob it uploaded.
UploadFileMutant ==
    /\ rpc = "uploading"
    /\ ui <= Len(resultsTree.entries)
    /\ LET en == resultsTree.entries[ui]
       IN  outputBlobs' =
              IF en.isFile
              THEN (BlobName(case_name, en.rel) :>
                       [kind |-> "file", stamp |-> "now", from |-> en.rel]) @@ outputBlobs
              ELSE outputBlobs
    /\ ui' = ui + 1
    /\ UNCHANGED <<case_name, blob_service_client, inputBlobs, caseDir, resultsTree,
                   uploaded_files, rpc, exitStatus, stages>>
    /\ UNCHANGED <<exportVars, importVars, triggerVars, monitorVars>>

\* One pass of the loop of lines 192-209: a file is uploaded under its blob
\* name, over a blob of that name if there is one, and the name is noted; a
\* folder is passed over.
UploadFile ==
    /\ rpc = "uploading"
    /\ ui <= Len(resultsTree.entries)
    /\ LET en == resultsTree.entries[ui]
       IN  IF en.isFile
           THEN /\ outputBlobs' =
                      (BlobName(case_name, en.rel) :>
                          [kind |-> "file", stamp |-> "now", from |-> en.rel]) @@ outputBlobs
                /\ uploaded_files' = Append(uploaded_files, BlobName(case_name, en.rel))
           ELSE UNCHANGED <<outputBlobs, uploaded_files>>
    /\ ui' = ui + 1
    /\ UNCHANGED <<case_name, blob_service_client, inputBlobs, caseDir, resultsTree,
                   rpc, exitStatus, stages>>
    /\ UNCHANGED <<exportVars, importVars, triggerVars, monitorVars>>

\* The upload that is due raises (lines 205-206 or 228): lines 233-235
\* return False and line 290 exits.
UploadFails ==
    /\ rpc = "uploading"
    /\ IF ui > Len(resultsTree.entries) THEN TRUE ELSE resultsTree.entries[ui].isFile
    /\ stages' = [stages EXCEPT ![Len(stages)].result = "raised"]
    /\ rpc' = "exited"
    /\ exitStatus' = 1
    /\ UNCHANGED <<case_name, blob_service_client, inputBlobs, caseDir, resultsTree,
                   outputBlobs, uploaded_files, ui>>
    /\ UNCHANGED <<exportVars, importVars, triggerVars, monitorVars>>

\* Lines 211-231 and 292: the loop is exhausted, the summary is uploaded,
\* upload_results returns True and run returns.
UploadSummary ==
    /\ rpc = "uploading"
    /\ ui > Len(resultsTree.entries)
    /\ outputBlobs' =
          (SummaryBlob(case_name) :>
              [kind |-> "summary", stamp |-> "now", case_name |-> case_name,
               files_uploaded |-> Len(uploaded_files), files |-> uploaded_files,
               status |-> "completed"]) @@ outputBlobs
    /\ stages' = [stages EXCEPT ![Len(stages)].result = "ok"]
    /\ rpc' = "exited"
    /\ exitStatus' = 0
    /\ UNCHANGED <<case_name, blob_service_client, inputBlobs, caseDir, resultsTree,
                   uploaded_files, ui>>
    /\ UNCHANGED <<exportVars, importVars, triggerVars, monitorVars>>

\* str.lower() of one piece.
Lower(piece) ==
    CASE piece = "Run.jl" -> "run.jl"
      [] piece = "GENERATORS_DATA.CSV" -> "generators_data.csv"
      [] piece = "Case_" -> "case_"
      [] piece = "GenX" -> "genx"
      [] OTHER -> piece

\* indicator.lower() of the indicators of lines 75-81.
GenxIndicators ==
    {"run.jl", "generators_data.csv", "load_data.csv", "fuels_data.csv", "genx_settings.yml"}

\* is_genx_case(blob_path)                          (function_app.py:69-92)
IsGenxCase(path) ==
    \/ \E i \in DOMAIN path : \E k \in DOMAIN path[i] : Lower(path[i][k]) \in GenxIndicators
    \/ \E i \in 2..(Len(path) - 1) : path[i] = <<"case">>
    \/ path # <<>> /\ path[1] # <<>> /\ path[1][1] = "case_"

\* The last segments of the blob names of the model.
BlobSegments ==
    {<<"Run.jl">>, <<"my_", "GENERATORS_DATA.CSV">>, <<"case_", "a.txt">>,
     <<"Case_", "a.txt">>, <<"notes.txt">>, <<"case">>}

\* event_data.get('url', '').split('/'): no url at all, or account and
\* container followed by a blob name of one or two segments.
EventUrls ==
    {<<<<>>>>} \cup
    {<<<<"acct">>, <<"cases">>, s>> : s \in BlobSegments} \cup
    {<<<<"acct">>, <<"cases">>, d, s>> :
        d \in {<<"case">>, <<"Run.jl">>}, s \in {<<"notes.txt">>, <<"case_", "a.txt">>}}

Events ==
    [type : {"Microsoft.Storage.BlobCreated", "Microsoft.Storage.BlobDeleted"},
     url : EventUrls]

\* The handler ended.
HandlerEnds(ev, how) == delivered' = Append(delivered, [event |-> ev, ended |-> how])

\* A handler that does not look at the event type.
BlobTriggerMutant ==
    /\ Len(delivered) < MaxEvents
    /\ \E ev \in Events, outcome \in {"created", "refused", "raised"} :
          IF Len(ev.url) < 2
          THEN /\ HandlerEnds(ev, "raised")
               /\ UNCHANGED creations
          ELSE IF ~IsGenxCase(<<ev.url[Len(ev.url)]>>)
          THEN /\ HandlerEnds(ev, "returned")
               /\ UNCHANGED creations
          ELSE /\ creations' = Append(creations,
                      [of |-> Len(delivered) + 1, blob_path |-> ev.url[Len(ev.url)],
                       outcome |-> outcome])
               /\ HandlerEnds(ev, "returned")
    /\ UNCHANGED <<exportVars, importVars, runnerVars, monitorVars>>

\* blob_trigger (lines 20-66) on one event.  An event of another type is
\* left at line 38; blob_url.split('/')[-2] raises for a url without "/"
\* (line 42); a name that is no case is left at line 49; otherwise
\* create_genx_container is called once, and its return value or its exception
\* is logged (lines 55-66).
BlobTrigger ==
    /\ Len(delivered) < MaxEvents
    /\ \E ev \in Events, outcome \in {"created", "refused", "raised"} :
          IF ev.type # "Microsoft.Storage.BlobCreated"
          THEN /\ HandlerEnds(ev, "returned")
               /\ UNCHANGED creations
          ELSE IF Len(ev.url) < 2
          THEN /\ HandlerEnds(ev, "raised")
               /\ UNCHANGED creations
          ELSE IF ~IsGenxCase(<<ev.url[Len(ev.url)]>>)
          THEN /\ HandlerEnds(ev, "returned")
               /\ UNCHANGED creations
          ELSE /\ creations' = Append(creations,
                      [of |-> Len(delivered) + 1, blob_path |-> ev.url[Len(ev.url)],
                       outcome |-> outcome])
               /\ HandlerEnds(ev, "returned")
    /\ UNCHANGED <<exportVars, importVars, runnerVars, monitorVars>>

Group(name, state, fmt, age) ==
    [name |-> name, state |-> state, created |-> [fmt |-> fmt, age |-> age]]

\* "iso": a text datetime.fromisoformat reads once "_" is a blank; "stamp":
\* the '%Y-%m-%d_%H-%M-%S' of function_app.py:277; "aware": an ISO text with
\* a UTC offset; "text": any other text; "absent": no such tag.
GroupLib ==
    {Group(<<"genx", "-a">>, "Succeeded", "iso", 3),
     Group(<<"genx", "-b">>, "Failed", "iso", 2),
     Group(<<"GenX", "-c">>, "Terminated", "iso", 3),
     Group(<<"genx", "-d">>, "Running", "iso", 3),
     Group(<<"genx", "-e">>, "Pending", "iso", 3),
     Group(<<"genx", "-f">>, "Unset", "iso", 3),
     Group(<<"genx", "-g">>, "Succeeded", "absent", 3),
     Group(<<"genx", "-h">>, "Succeeded", "stamp", 3),
     Group(<<"genx", "-k">>, "Failed", "aware", 3),
     Group(<<"genx", "-t">>, "Terminated", "text", 3),
     Group(<<"other", "-i">>, "Succeeded", "iso", 3),
     Group(<<"genx", "-j">>, "Succeeded", "iso", 0)}

\* 'genx' in c.name.lower()                     (production_monitor.py:125)
NamedGenx(c) == \E k \in DOMAIN c.name : Lower(c.name[k]) = "genx"

\* Lines 134-137: the tag is read and the age is compared; FALSE also when
\* fromisoformat or the subtraction from datetime.now() raises.
OlderThan(created, hours) == created.fmt = "iso" /\ created.age > hours

\* Lines 123-127: the container groups are listed; a failure of the listing
\* is reported by line 149 and nothing is examined.
ListContainers ==
    /\ mpc = "start"
    /\ \E listed \in BOOLEAN :
          IF listed
          THEN /\ genx_containers' = SelectSeq(Indices(Len(containerGroups)),
                                               LAMBDA i : NamedGenx(containerGroups[i]))
               /\ mpc' = "loop"
          ELSE /\ mpc' = "failed"
               /\ UNCHANGED genx_containers
    /\ cleaned_count' = 0
    /\ ci' = 1
    /\ UNCHANGED <<containerGroups, max_age_hours, deleteRequests>>
    /\ UNCHANGED <<exportVars, importVars, runnerVars, triggerVars>>

\* An examination that does not look at the state.
ExamineContainerMutant ==
    /\ mpc = "loop"
    /\ ci <= Len(genx_containers)
    /\ LET c == containerGroups[genx_containers[ci]]
       IN  IF c.created.fmt # "absent" /\ OlderThan(c.created, max_age_hours)
           THEN \E accepted \in BOOLEAN :
                   /\ deleteRequests' = Append(deleteRequests,
                          [group |-> genx_containers[ci], accepted |-> accepted])
                   /\ cleaned_count' = IF accepted THEN cleaned_count + 1 ELSE cleaned_count
           ELSE UNCHANGED <<deleteRequests, cleaned_count>>
    /\ ci' = ci + 1
    /\ UNCHANGED <<containerGroups, max_age_hours, genx_containers, mpc>>
    /\ UNCHANGED <<exportVars, importVars, runnerVars, triggerVars>>

\* One pass of the loop of lines 128-144.  begin_delete may raise: line 143
\* catches it and the loop goes on.
ExamineContainer ==
    /\ mpc = "loop"
    /\ ci <= Len(genx_containers)
    /\ LET c == containerGroups[genx_containers[ci]]
       IN  IF /\ c.state \in {"Succeeded", "Failed", "Terminated"}
              /\ c.created.fmt # "absent"
              /\ OlderThan(c.created, max_age_hours)
           THEN \E accepted \in BOOLEAN :
                   /\ deleteRequests' = Append(deleteRequests,
                          [group |-> genx_containers[ci], accepted |-> accepted])
                   /\ cleaned_count' = IF accepted THEN cleaned_count + 1 ELSE cleaned_count
           ELSE UNCHANGED <<deleteRequests, cleaned_count>>
    /\ ci' = ci + 1
    /\ UNCHANGED <<containerGroups, max_age_hours, genx_containers, mpc>>
    /\ UNCHANGED <<exportVars, importVars, runnerVars, triggerVars>>

\* Line 146: the loop is exhausted.
FinishCleanup ==
    /\ mpc = "loop"
    /\ ci > Len(genx_containers)
    /\ mpc' = "done"
    /\ UNCHANGED <<containerGroups, max_age_hours, genx_containers, ci, deleteRequests,
                   cleaned_count>>
    /\ UNCHANGED <<exportVars, importVars, runnerVars, triggerVars>>

NextRunner ==
    \/ RunFallback \/ DownloadCaseData \/ RunGenxOptimization \/ BeginUpload
    \/ UploadFile \/ UploadFails \/ UploadSummary

NextTrigger == BlobTrigger

NextCleanup == ListContainers \/ ExamineContainer \/ FinishCleanup

(***************************************************************************)
(* Workbooks.  The header row of a region read with a header holds         *)
(* distinct, non-missing labels.                                           *)
(***************************************************************************)
NoFiles == [f \in {} |-> NoPass.final]

\* The year ActiveYear holds before the export.
StartYear == "2040"

\* The value a non-missing cell under a header holds.
ValueUnder(h) ==
    CASE h = "resource" -> "r1"
      [] h = "drop" -> "True"
      [] h = "cluster" -> "c1"
      [] OTHER -> "2.0"

BodyShapes == {sh \in (0..MaxCells) \X (1..(MaxCells + 1)) :
                  sh[1] * sh[2] <= MaxCells /\ (sh[1] = 0 => sh[2] <= 2)}

\* The regions whose header row is the first columns of order and whose body
\* has at most MaxCells cells, each missing or not.
Regions(order) ==
    UNION {{<<SubSeq(order, 1, sh[2])>> \o
              [i \in 1..sh[1] |-> [j \in 1..sh[2] |->
                  IF b[i][j] THEN ValueUnder(order[j]) ELSE NA]] :
                b \in [1..sh[1] -> [1..sh[2] -> BOOLEAN]]} : sh \in BodyShapes}

RangeLib ==
    {[name |-> <<"X.csv", "1">>, region |-> <<<<"a", "zone">>, <<"=Y", "1.0">>>>],
     [name |-> <<"X.csv", "2", "ffill">>, region |-> <<<<"b">>, <<"2.0">>, <<NA>>>>],
     [name |-> <<"Y.csv", "1">>, region |-> <<<<"zone", "c">>, <<NA, "2.0">>>>],
     [name |-> <<"Y.csv", "2", "fill">>, region |-> <<<<"d">>, <<"=Y">>>>],
     [name |-> <<"notes">>, region |-> <<<<"a">>, <<"1.0">>>>],
     [name |-> <<"notes", "X.csv">>, region |-> <<<<"e">>, <<"2.0">>>>]}

PeriodRows == {<<"2025.0", "p1">>, <<"2030.0", "p2">>, <<"2035.0", NA>>, <<NA, "p3">>}

\* The case roots of the model: an ordinary name, and two names that
\* start with "results_p".
CaseStems ==
    {[head |-> "", tail |-> "case1"], [head |-> "results_p", tail |-> "7"],
     [head |-> "results_p", tail |-> "ilot"]}

ImportRows == {<<"2025.0", "p1">>, <<"2030.0", "p2">>, <<"2030.0", "p1">>}

CostValues == {5000000, 1234, 1500, 2500, 4999, -1500}

CapsFile ==
    [cols |-> <<Label("Zone", ""), Label("StartCap_p", "1"), Label("EndCap_p", "1"),
                Label("StartCap_p", "2"), Label("EndCap_p", "2")>>,
     rows |-> <<<<1, 0, 100, 100, 250>>>>]

\* The values of a settings range's second column.
SettingValues == {"True", "1.0", "0.5", "2.0", "text", NA}

\* A workbook whose settings ranges hold flags and whole numbers only.
PlainSettings ==
    [n \in Range(SettingsFiles) |-> <<<<"A:", "True">>, <<"B:", "2.0">>>>]

\* A settings folder left by an earlier export.
StaleSettings ==
    [exists |-> TRUE,
     files |-> ("genx_settings.yml" :> <<<<"A:", "0">>>>) @@ ("old_settings.yml" :> <<<<"O:", "1">>>>)]

NoInvocation == [pc |-> "idle"]

\* One invocation, no I/O failure so far.
InitSched ==
    /\ requests = 0
    /\ fault = "none"
    /\ parked = NoInvocation
    /\ who = 1

InitSettingsPlain ==
    /\ settingsDir = StaleSettings
    /\ wbSettings = PlainSettings
    /\ settingsWas = StaleSettings

\* No container runner, event handler or cleanup is under way.
InitRunnerIdle ==
    /\ case_name = ""
    /\ blob_service_client = FALSE
    /\ inputBlobs = {}
    /\ caseDir = [exists |-> FALSE, files |-> {}]
    /\ resultsTree = [exists |-> FALSE, entries |-> <<>>]
    /\ outputBlobs = <<>>
    /\ uploaded_files = <<>>
    /\ ui = 1
    /\ rpc = "idle"
    /\ exitStatus = -1
    /\ stages = <<>>

InitTriggerIdle ==
    /\ delivered = <<>>
    /\ creations = <<>>

InitCleanupIdle ==
    /\ containerGroups = <<>>
    /\ max_age_hours = 24
    /\ genx_containers = <<>>
    /\ ci = 1
    /\ deleteRequests = <<>>
    /\ cleaned_count = 0
    /\ mpc = "idle"

InitOpsIdle == InitRunnerIdle /\ InitTriggerIdle /\ InitCleanupIdle

\* No import is under way.
InitImportIdle ==
    /\ caseStem = [head |-> "", tail |-> "case1"]
    /\ resultsDir = {}
    /\ periodsCsv = [present |-> FALSE, rows |-> <<>>]
    /\ capsRaw = CapsFile
    /\ costsRaw = [cols |-> <<>>, rows |-> <<>>]
    /\ ipc = "idle"
    /\ periods_range = <<>>
    /\ written = <<>>
    /\ wbResults = <<>>
    /\ irun = 1
    /\ isnap = <<>>

\* No export is under way.
InitExportIdle ==
    /\ wbNames = <<>>
    /\ wbFormulas = <<>>
    /\ sheet = <<>>
    /\ modeledYears = <<>>
    /\ activeYear = StartYear
    /\ pc = "idle"
    /\ planning_periods = <<>>
    /\ counter = 1
    /\ csv_names = <<>>
    /\ gi = 1
    /\ files = NoFiles
    /\ log = {}
    /\ reads = {}
    /\ last = NoPass
    /\ exportCalls = <<>>
    /\ run = 1
    /\ snap = NoFiles
    /\ InitSched
    /\ InitSettingsPlain

\* A finished case: results/ holds one or more of the folders results_p1,
\* results_p2, results_p10 and the two multi-period files; planning_periods.csv
\* is absent or holds at most MaxPeriods rows.
InitImport ==
    /\ caseStem \in CaseStems
    /\ \E t \in (SUBSET {"1", "2", "10"}) \ {{}} : resultsDir = {PeriodDir(x) : x \in t}
    /\ \/ periodsCsv = [present |-> FALSE, rows |-> <<>>]
       \/ \E rows \in InjSeqsUpTo(ImportRows, MaxPeriods) :
             periodsCsv = [present |-> TRUE, rows |-> rows]
    /\ capsRaw = CapsFile
    /\ \E v \in CostValues :
          costsRaw = [cols |-> <<Label("TotalCosts_p", "1"), Label("TotalCosts_p", "2")>>,
                      rows |-> <<<<v, 5000000>>, <<1500, v>>>>]
    /\ ipc = "start"
    /\ periods_range = <<>>
    /\ written = <<>>
    /\ wbResults = <<>>
    /\ irun = 1
    /\ isnap = <<>>
    /\ InitExportIdle
    /\ InitOpsIdle

InitControl ==
    /\ InitImportIdle
    /\ InitSched
    /\ activeYear = StartYear
    /\ sheet = Calculate(wbFormulas, StartYear)
    /\ pc = "start"
    /\ planning_periods = <<>>
    /\ counter = 1
    /\ csv_names = <<>>
    /\ gi = 1
    /\ files = NoFiles
    /\ log = {}
    /\ reads = {}
    /\ last = NoPass
    /\ exportCalls = <<>>
    /\ run = 1
    /\ snap = NoFiles
    /\ InitOpsIdle

\* Any workbook of at most MaxNames ranges of RangeLib, in any order, and any
\* ModeledYears table of at most MaxPeriods rows.
Init ==
    /\ \E w \in InjSeqsUpTo(RangeLib, MaxNames) :
          /\ wbNames = [i \in DOMAIN w |-> w[i].name]
          /\ wbFormulas = [i \in DOMAIN w |-> w[i].region]
    /\ modeledYears \in InjSeqsUpTo(PeriodRows, MaxPeriods)
    /\ InitSettingsPlain
    /\ InitControl

vars == <<exportVars, importVars, opsVars>>

Spec == Init /\ [][Next]_vars

\* A workbook of one range: every transform suffix on an ordinary and on a
\* harmonized target, over every region of at most MaxCells body cells.
FragTargets ==
    {"X.csv",
     "resources\\policy_assignments\\Resource_NQC_derate.csv",
     "resources\\policy_assignments\\ELCC_multipliers.csv",
     "resources\\Resource_multistage_data.csv"}

FragSuffixes ==
    {<<"1">>, <<"1", "T">>, <<"1", "ffill">>, <<"1", "drop", "1">>, <<"1", "drop", "2">>,
     <<"1", "drop", "3">>, <<"1", "fill">>, <<"1", "drop", "4">>}

FragOrders ==
    {<<"resource", "zone", "a", "cluster", "b", "c">>,
     <<"a", "drop", "resource", "zone", "b", "c">>,
     <<"zone", "b", "drop", "a", "cluster", "c">>}

InitFragment ==
    /\ \E t \in FragTargets, sfx \in FragSuffixes : wbNames = <<<<t>> \o sfx>>
    /\ \E o \in FragOrders : \E r \in Regions(o) : wbFormulas = <<r>>
    /\ modeledYears = <<<<"2025.0", "p1">>>>
    /\ InitSettingsPlain
    /\ InitControl

SpecFragment == InitFragment /\ [][NextOnce]_vars

\* A workbook of the two fragments of one target, discovered in either
\* order, over every pair of regions of at most MaxCells body cells.
PairOrder1 == <<"a", "zone", "b", "c", "d", "e">>
PairOrder2 == <<"f", "g", "h", "i", "j", "k">>

Frag1Name == <<"X.csv", "1">>
Frag2Name == <<"X.csv", "2", "ffill">>

InitPair ==
    /\ wbNames \in {<<Frag1Name, Frag2Name>>, <<Frag2Name, Frag1Name>>}
    /\ \E r1 \in Regions(PairOrder1), r2 \in Regions(PairOrder2) :
          wbFormulas = IF wbNames[1] = Frag1Name THEN <<r1, r2>> ELSE <<r2, r1>>
    /\ modeledYears = <<<<"2025.0", "p1">>>>
    /\ InitSettingsPlain
    /\ InitControl

SpecPair == InitPair /\ [][NextOnce]_vars

\* Two exports to one case root, the workbook edited in between.
NextOverwrite == NextOnce \/ RerunEdited

SpecOverwrite == Init /\ [][NextOverwrite]_vars

SpecImport == InitImport /\ [][NextImport]_vars

\* Multi-period capacity files: the columns GenX writes, the same with one
\* more column, and a file with no Zone column.
CapsFiles ==
    {CapsFile,
     [cols |-> <<Label("Zone", ""), Label("Cluster", ""), Label("StartCap_p", "1"),
                 Label("EndCap_p", "1"), Label("EndCap_p", "2")>>,
      rows |-> <<<<1, 3, 0, 100, 250>>>>],
     [cols |-> <<Label("StartCap_p", "1"), Label("EndCap_p", "1")>>,
      rows |-> <<<<0, 100>>>>]}

\* As InitImport, over the capacity files and one cost file.
InitCapacity ==
    /\ caseStem = [head |-> "", tail |-> "case1"]
    /\ \E t \in (SUBSET {"1", "2", "10"}) \ {{}} : resultsDir = {PeriodDir(x) : x \in t}
    /\ \/ periodsCsv = [present |-> FALSE, rows |-> <<>>]
       \/ \E rows \in InjSeqsUpTo(ImportRows, MaxPeriods) :
             periodsCsv = [present |-> TRUE, rows |-> rows]
    /\ capsRaw \in CapsFiles
    /\ costsRaw = [cols |-> <<Label("TotalCosts_p", "1"), Label("TotalCosts_p", "2")>>,
                   rows |-> <<<<1500, 5000000>>>>]
    /\ ipc = "start"
    /\ periods_range = <<>>
    /\ written = <<>>
    /\ wbResults = <<>>
    /\ irun = 1
    /\ isnap = <<>>
    /\ InitExportIdle
    /\ InitOpsIdle

SpecCapacity == InitCapacity /\ [][NextImport]_vars

\* ModeledYears rows for an export followed by an import: the rows of
\* PeriodRows and rows that repeat a year or a period id.
RoundTripRows == PeriodRows \cup {<<"2030.0", "p1">>, <<"2025.0", "p2">>}

InitRoundTrip ==
    /\ wbNames = <<<<"X.csv", "1">>>>
    /\ wbFormulas = <<<<<<"a">>, <<"=Y">>>>>>
    /\ modeledYears \in InjSeqsUpTo(RoundTripRows, MaxPeriods)
    /\ InitSettingsPlain
    /\ InitControl

NextRoundTrip == NextOnce \/ EnterImport \/ NextImport

SpecRoundTrip == InitRoundTrip /\ [][NextRoundTrip]_vars

\* The rows a settings range may hold: at most MaxPairs pairs, the keys
\* "A:", "B:", ... in turn.
MaxPairs == 2

SettingKeys == <<"A:", "B:", "C:", "D:">>

SettingRows ==
    {[i \in DOMAIN vs |-> <<SettingKeys[i], vs[i]>>] : vs \in SeqsUpTo(SettingValues, MaxPairs)}

\* A workbook of one range and one period; the four settings ranges hold
\* the same rows; settings/ is absent, or left by an earlier export.
InitSettings ==
    /\ wbNames = <<<<"X.csv", "1">>>>
    /\ wbFormulas = <<<<<<"a">>, <<"=Y">>>>>>
    /\ modeledYears = <<<<"2025.0", "p1">>>>
    /\ \E rows \in SettingRows : wbSettings = [n \in Range(SettingsFiles) |-> rows]
    /\ settingsDir \in {NoSettings, StaleSettings}
    /\ settingsWas = settingsDir
    /\ InitControl

NextSteps ==
    BeginExport \/ BeginPeriod \/ SaveTarget \/ EndPeriod \/ RemoveSettings \/ WriteSettings

SpecSettings == InitSettings /\ [][NextSteps]_vars

NextFaulty == NextSteps \/ IOFailure

SpecFaulty == Init /\ [][NextFaulty]_vars

\* Two workbooks that export to the same case root: the same ranges, other
\* values, and their own ModeledYears tables.
SharedNames == <<<<"X.csv", "1">>, <<"Y.csv", "1">>>>

SharedRegions(v) == <<<<<<"a", "b">>, <<v, "=Y">>>>, <<<<"c">>, <<v>>>>>>

SharedRows == {<<"2025.0", "p1">>, <<"2030.0", "p2">>}

InitShared ==
    /\ wbNames = SharedNames
    /\ wbFormulas = SharedRegions("1.0")
    /\ modeledYears \in InjSeqsUpTo(SharedRows, MaxPeriods) \ {<<>>}
    /\ InitSettingsPlain
    /\ InitImportIdle
    /\ activeYear = StartYear
    /\ sheet = Calculate(wbFormulas, StartYear)
    /\ pc = "start"
    /\ planning_periods = <<>>
    /\ counter = 1
    /\ csv_names = <<>>
    /\ gi = 1
    /\ files = NoFiles
    /\ log = {}
    /\ reads = {}
    /\ last = NoPass
    /\ exportCalls = <<>>
    /\ run = 1
    /\ snap = NoFiles
    /\ requests = 0
    /\ fault = "none"
    /\ who = 1
    /\ \E y \in InjSeqsUpTo(SharedRows, MaxPeriods) \ {<<>>} :
          parked = [wbNames |-> SharedNames, wbFormulas |-> SharedRegions("2.0"),
                    sheet |-> Calculate(SharedRegions("2.0"), StartYear),
                    modeledYears |-> y, activeYear |-> StartYear, pc |-> "start",
                    planning_periods |-> <<>>, counter |-> 1, csv_names |-> <<>>, gi |-> 1,
                    log |-> {}, reads |-> {}, last |-> NoPass, exportCalls |-> <<>>,
                    wbSettings |-> [n \in Range(SettingsFiles) |-> <<<<"A:", "False">>>>],
                    requests |-> 0]
    /\ InitOpsIdle

NextShared == NextSteps \/ ContextSwitch

SpecShared == InitShared /\ [][NextShared]_vars

\* The export with the recompute as a request and its completion.
NextBlocking ==
    \/ BeginExport \/ RequestRecompute \/ RecomputeSettles \/ SaveTarget \/ EndPeriod
    \/ SaveSettings

\* A pass of the loop of line 22 is due.
TargetDue == pc = "targets" /\ gi <= Len(csv_names)

\* The steps of the Python code are taken one after the other, and every
\* recompute requested settles in the end.  The last conjunct is
\* WF_vars(SaveTarget), written with TargetDue for ENABLED <<SaveTarget>>_vars.
SpecBlocking ==
    /\ Init
    /\ [][NextBlocking]_vars
    /\ WF_vars(BeginExport \/ RequestRecompute \/ EndPeriod \/ SaveSettings)
    /\ WF_vars(RecomputeSettles)
    /\ ([]<>~TargetDue \/ []<><<SaveTarget>>_vars)

\* The blobs of the input container: files of the case c1, a result of an
\* earlier run of it, and files of the cases c10 and d2.
InputBlobLib ==
    {[case |-> "c1", results |-> FALSE, file |-> "Run.jl"],
     [case |-> "c1", results |-> TRUE, file |-> "power.csv"],
     [case |-> "c10", results |-> FALSE, file |-> "Run.jl"],
     [case |-> "d2", results |-> FALSE, file |-> "Run.jl"]}

\* What an earlier run of the case c1 left in the output container.
StaleBlobs ==
    (BlobName("c1", "power.csv") :> [kind |-> "file", stamp |-> "earlier", from |-> "power.csv"])
    @@ (SummaryBlob("c1") :>
           [kind |-> "summary", stamp |-> "earlier", case_name |-> "c1", files_uploaded |-> 1,
            files |-> <<BlobName("c1", "power.csv")>>, status |-> "completed"])

\* A container starts: the case name is set or not, the blob client is there
\* or not, the containers hold any blobs of the model.
InitRunner ==
    /\ case_name \in {"", "c1"}
    /\ blob_service_client \in BOOLEAN
    /\ inputBlobs \in SUBSET InputBlobLib
    /\ caseDir = [exists |-> FALSE, files |-> {}]
    /\ resultsTree = [exists |-> FALSE, entries |-> <<>>]
    /\ outputBlobs \in {<<>>, StaleBlobs}
    /\ uploaded_files = <<>>
    /\ ui = 1
    /\ rpc = "start"
    /\ exitStatus = -1
    /\ stages = <<>>
    /\ InitTriggerIdle
    /\ InitCleanupIdle
    /\ InitImportIdle
    /\ InitExportIdle

SpecRunner == InitRunner /\ [][NextRunner]_vars

\* The handler waits for events.
InitTrigger ==
    /\ InitTriggerIdle
    /\ InitRunnerIdle
    /\ InitCleanupIdle
    /\ InitImportIdle
    /\ InitExportIdle

SpecTrigger == InitTrigger /\ [][NextTrigger]_vars

\* The limits of the model, in hours.
AgeLimits == {1, 2}

\* cleanup_completed_containers is called on a resource group of at most
\* MaxGroups container groups.
InitCleanup ==
    /\ containerGroups \in InjSeqsUpTo(GroupLib, MaxGroups)
    /\ max_age_hours \in AgeLimits
    /\ genx_containers = <<>>
    /\ ci = 1
    /\ deleteRequests = <<>>
    /\ cleaned_count = 0
    /\ mpc = "start"
    /\ InitRunnerIdle
    /\ InitTriggerIdle
    /\ InitImportIdle
    /\ InitExportIdle

SpecCleanup == InitCleanup /\ [][NextCleanup]_vars


(***************************************************************************)
(* Properties of the export.                                               *)
(***************************************************************************)
Finished == pc \in {"done", "failed"}

\* The file the most recent pass wrote.
LastFile == FilePath(last.sub, PathOf(last.csv))

\* The number of a drop-keep suffix, 0 for any other name.
DropCount(name) ==
    IF Len(name) >= 3 /\ name[Len(name) - 1] = "drop"
    THEN CASE name[Len(name)] = "1" -> 1
           [] name[Len(name)] = "2" -> 2
           [] name[Len(name)] = "3" -> 3
           [] OTHER -> 0
    ELSE 0

\* The columns of the written table that come before those of fragment k.
Offset(frags, k) == Len(Flatten([i \in 1..(k - 1) |-> frags[i].df.cols]))

\* The text of a name holds the marker ".csv": one of its pieces does.
HoldsMarker(name) == \E i \in DOMAIN name : name[i] \in CsvPieces

\* C1: a workbook name whose text does not contain ".csv" is never read,
\* is in no group, contributes no fragment to any target, and every file
\* under the case root is the file of a name that does contain ".csv".
C1_CatalogExclusion ==
    /\ \A i \in reads : HoldsMarker(wbNames[i])
    /\ \A g \in DOMAIN csv_names : \A k \in DOMAIN csv_names[g].ranges :
          HoldsMarker(wbNames[csv_names[g].ranges[k]])
    /\ \A k \in DOMAIN last.frags : HoldsMarker(last.frags[k].name)
    /\ \A f \in DOMAIN files :
          f # PeriodsFile =>
             \E i \in DOMAIN wbNames :
                HoldsMarker(wbNames[i]) /\ f.file = PathOf(wbNames[i][1])

C1_Witness ==
    /\ pc = "done"
    /\ \E i \in DOMAIN wbNames : ~HoldsMarker(wbNames[i])
    /\ reads # {}
    /\ \E f \in DOMAIN files : f # PeriodsFile

\* C2: after a second save_multistage_case on the same workbook and case
\* root, the files under the case root are those the first one left.
C2_Idempotent == (run = 2 /\ Finished) => files = snap

C2_Witness ==
    /\ run = 2
    /\ pc = "done"
    /\ Len(planning_periods) = 2
    /\ \E i \in reads : \E r \in DOMAIN wbFormulas[i] : "=Y" \in Range(wbFormulas[i][r])
    /\ files = snap
    /\ \E f \in DOMAIN files : f.sub = 2

\* C4 as stated: whatever the number of columns of the cleaned table, a
\* drop-keep-N fragment yields N+1 columns, the first and the last N of the
\* input, no input column twice, and no missing cell.
C4_Original ==
    \A k \in DOMAIN last.frags :
       LET m == last.frags[k]
           n == DropCount(m.name)
           c == NCols(m.cleaned)
       IN  n > 0 =>
              /\ m.tok
              /\ NCols(m.shaped) = n + 1
              /\ c >= n + 1
              /\ m.shaped.cols[1] = m.cleaned.cols[1]
              /\ \A j \in 1..n : m.shaped.cols[1 + j] = m.cleaned.cols[c - n + j]
              /\ ~HasBlank(m.shaped)

\* C4, amended: for a cleaned table of more than N columns a drop-keep-N
\* fragment yields exactly N+1 columns, the first and the last N of the input,
\* each once, holding the rows that have no missing cell in these columns; for
\* a table of exactly N columns the first column comes twice, and for fewer
\* than N columns the step raises.
C4_DropKeep ==
    \A k \in DOMAIN last.frags :
       LET m == last.frags[k]
           n == DropCount(m.name)
           c == NCols(m.cleaned)
           keep == <<1>> \o [j \in 1..n |-> c - n + j]
           full == SelectSeq(m.cleaned.rows, LAMBDA r : \A j \in 1..(n + 1) : r[keep[j]] # NA)
       IN  n > 0 =>
              /\ m.tok <=> c >= n
              /\ c >= n =>
                    /\ NCols(m.shaped) = n + 1
                    /\ \A j \in 1..(n + 1) : m.shaped.cols[j] = m.cleaned.cols[keep[j]]
                    /\ NRows(m.shaped) = Len(full)
                    /\ \A i \in 1..Len(full) : \A j \in 1..(n + 1) :
                          m.shaped.rows[i][j] = full[i][keep[j]]
                    /\ ~HasBlank(m.shaped)
              /\ c > n => \A i, j \in 1..(n + 1) : i # j => keep[i] # keep[j]
              /\ c = n => keep[2] = 1

C4_Witness ==
    \E k \in DOMAIN last.frags :
       LET m == last.frags[k]
       IN  /\ DropCount(m.name) = 2
           /\ NCols(m.cleaned) = 4
           /\ m.tok
           /\ NRows(m.shaped) = 1
           /\ m.shaped.cols = <<m.cleaned.cols[1], m.cleaned.cols[3], m.cleaned.cols[4]>>


\* The cell forward-fill leaves at row i, column j of a table: the cell
\* itself, or the nearest non-missing cell above it, if there is one.
FilledCell(df, i, j) ==
    LET above == {h \in 1..i : df.rows[h][j] # NA}
    IN  IF above = {} THEN NA
        ELSE df.rows[CHOOSE h \in above : \A g \in above : g <= h][j]

IsFilled(m) ==
    /\ m.tok
    /\ m.shaped.cols = m.cleaned.cols
    /\ NRows(m.shaped) = NRows(m.cleaned)
    /\ \A i \in 1..NRows(m.cleaned) : \A j \in 1..NCols(m.cleaned) :
          m.shaped.rows[i][j] = FilledCell(m.cleaned, i, j)

\* The pass wrote the file of X.csv from the fragments X.csv...1 and
\* X.csv...2...ffill.
PairWritten ==
    /\ last.ok
    /\ Len(last.frags) = 2
    /\ {last.frags[1].name, last.frags[2].name} = {Frag1Name, Frag2Name}

\* The fragment of the pass that carries the given name.
FragNamed(name) == last.frags[CHOOSE k \in DOMAIN last.frags : last.frags[k].name = name]

\* C5 as stated: the file of X.csv is fragment 1's columns followed by the
\* forward-filled columns of fragment 2, rows aligned by position, and has as
\* many rows as fragment 1.
C5_Original ==
    PairWritten =>
       LET f1 == FragNamed(Frag1Name)
           f2 == FragNamed(Frag2Name)
           out == files[LastFile]
       IN  /\ IsFilled(f2)
           /\ out.cols = f1.df.cols \o f2.df.cols
           /\ NRows(out) = NRows(f1.df)
           /\ \A i \in 1..NRows(out) :
                 out.rows[i] = f1.df.rows[i] \o
                    (IF i <= NRows(f2.df) THEN f2.df.rows[i]
                     ELSE [j \in 1..NCols(f2.df) |-> NA])

\* Row i of a fragment in a file of n rows: the row itself; a fragment
\* shorter than the file has its integers written as floats and is continued
\* with missing cells.
RowInFile(df, i, n) ==
    IF NRows(df) = n THEN df.rows[i]
    ELSE IF i <= NRows(df) THEN [j \in 1..NCols(df) |-> AsFloat(df.rows[i][j])]
    ELSE [j \in 1..NCols(df) |-> NA]

\* C5, amended: the file of X.csv is the columns of the fragment discovered
\* first followed by those of the fragment discovered second (fragment 1
\* first when its name is discovered first), fragment 2 forward-filled, rows
\* aligned by position; the file has as many rows as the longer fragment,
\* hence as fragment 1 when fragment 2 is not longer.
C5_Assembly ==
    PairWritten =>
       LET a == last.frags[1]
           b == last.frags[2]
           f1 == FragNamed(Frag1Name)
           f2 == FragNamed(Frag2Name)
           out == files[LastFile]
           n == Max(NRows(a.df), NRows(b.df))
       IN  /\ IsFilled(f2)
           /\ a.name = wbNames[1] /\ b.name = wbNames[2]
           /\ out.cols = a.df.cols \o b.df.cols
           /\ NRows(out) = n
           /\ \A i \in 1..n : out.rows[i] = RowInFile(a.df, i, n) \o RowInFile(b.df, i, n)
           /\ NRows(f2.df) <= NRows(f1.df) => NRows(out) = NRows(f1.df)
           /\ (a.name = Frag1Name /\ NRows(f2.df) = NRows(f1.df)) =>
                 /\ out.cols = f1.df.cols \o f2.df.cols
                 /\ \A i \in 1..n : out.rows[i] = f1.df.rows[i] \o f2.df.rows[i]

C5_Witness ==
    /\ PairWritten
    /\ last.frags[1].name = Frag1Name
    /\ NRows(last.frags[1].df) = 2
    /\ NRows(last.frags[2].df) = 2
    /\ HasBlank(last.frags[2].cleaned)
    /\ ~HasBlank(last.frags[2].shaped)
    /\ NCols(files[LastFile]) = 3

\* The rows of the ModeledYears table that have no missing cell.
CompleteRows(table) == SelectSeq(table, LAMBDA r : r[1] # NA /\ r[2] # NA)

\* Every group of the workbook has its file in the folder of ordinal k.
FolderFilled(k) ==
    \A i \in DOMAIN wbNames :
       HoldsMarker(wbNames[i]) => FilePath(k, PathOf(wbNames[i][1])) \in DOMAIN files

\* C6 as stated: for a table of N rows the export runs N times, into the
\* folders 1..N, and planning_periods.csv holds these N rows.
C6_Original ==
    pc = "done" =>
       /\ exportCalls = Indices(Len(modeledYears))
       /\ files[PeriodsFile].rows = modeledYears

\* C6, amended: N is the number of rows left of the table once the rows
\* with a missing value are dropped.  The export is called for 1, 2, ... in
\* turn, never beyond N; a save_multistage_case that returns has called it
\* exactly N times, every file is in one of the folders 1..N, each of which
\* holds every target, and planning_periods.csv holds exactly these N rows.
C6_PeriodFolders ==
    LET rows == CompleteRows(modeledYears)
        n == Len(rows)
    IN  /\ exportCalls = Indices(Len(exportCalls))
        /\ Len(exportCalls) <= n
        /\ \A f \in DOMAIN files : f # PeriodsFile => f.sub \in 1..n
        /\ pc = "done" =>
              /\ exportCalls = Indices(n)
              /\ \A k \in 1..n : FolderFilled(k)
              /\ files[PeriodsFile].rows = rows

C6_Witness ==
    /\ pc = "done"
    /\ Len(exportCalls) = 1
    /\ Len(modeledYears) = 2
    /\ \E f \in DOMAIN files : f.sub = 1

\* The headers a fragment hands to the file of a target.
WrittenHeaders(csv_name, cols) ==
    IF csv_name \in {"resources\\policy_assignments\\Resource_NQC_derate.csv",
                     "resources\\policy_assignments\\ELCC_multipliers.csv",
                     "resources\\Resource_multistage_data.csv"}
    THEN [j \in DOMAIN cols |-> IF cols[j] = "resource" THEN "Resource" ELSE cols[j]]
    ELSE cols

\* C8: the headers of the file written for a target are those of its
\* shaped fragments, in order, with "resource" written as "Resource" when the
\* target is one of the three listed paths and unchanged otherwise.
C8_Harmonized ==
    (last.ok /\ last.frags # <<>>) =>
       /\ LastFile \in DOMAIN files
       /\ files[LastFile].cols =
             Flatten([k \in DOMAIN last.frags |->
                         WrittenHeaders(last.csv, last.frags[k].shaped.cols)])

C8_Witness ==
    /\ last.ok
    /\ last.csv = "resources\\policy_assignments\\ELCC_multipliers.csv"
    /\ \E k \in DOMAIN last.frags : "resource" \in Range(last.frags[k].shaped.cols)
    /\ "Resource" \in Range(files[LastFile].cols)
    /\ "resource" \notin Range(files[LastFile].cols)

\* C9 as stated: a fragment whose table holds a missing cell after cleaning
\* and transform, in whatever column, has the diagnostic of its target logged,
\* does not end the export, and the file of its target is written.
C9_Claim ==
    \A k \in DOMAIN last.frags :
       LET m == last.frags[k]
       IN  (m.tok /\ HasBlank(m.shaped)) =>
              /\ m.ok
              /\ pc # "failed"
              /\ [sub |-> last.sub, csv |-> last.csv] \in log
              /\ last.ok /\ LastFile \in DOMAIN files

\* The ending of the name is none of the five the code knows.
Unrecognized(name) ==
    /\ HoldsMarker(name)
    /\ Len(name) >= 2
    /\ name[Len(name)] \notin {"T", "ffill"}
    /\ ~(Len(name) >= 3 /\ name[Len(name) - 1] = "drop"
         /\ name[Len(name)] \in {"1", "2", "3"})

\* C10: a range whose ending is not recognized is read with its first row
\* as headers, passes the transform step without an error and unshaped, ends
\* as the same range does under a name with no transform tag, and its columns
\* are in the file of its target when that file is written.
C10_Unrecognized ==
    \A k \in DOMAIN last.frags :
       LET m == last.frags[k]
           plain == Materialize(last.csv, <<last.csv, "1">>, m.region)
       IN  Unrecognized(m.name) =>
              /\ Range(m.cleaned.cols) \subseteq Range(Head(m.region))
              /\ NRows(m.cleaned) <= Len(m.region) - 1
              /\ m.tok
              /\ m.shaped = m.cleaned
              /\ m.ok = plain.ok /\ m.df = plain.df
              /\ last.ok =>
                    SubSeq(files[LastFile].cols, Offset(last.frags, k) + 1,
                           Offset(last.frags, k) + NCols(m.df)) = m.df.cols

C10_Witness ==
    /\ pc = "done"
    /\ last.ok
    /\ \E k \in DOMAIN last.frags :
          /\ last.frags[k].name[Len(last.frags[k].name)] = "fill"
          /\ NRows(last.frags[k].df) >= 1
          /\ NCols(files[LastFile]) >= 2

\* The year of the k-th period the export enumerates.
PeriodYear(k) == AsInt(KeptPeriods(modeledYears)[k][1])

\* The values a region shows once the workbook is recomputed for year.
RegionFor(region, year) ==
    [i \in DOMAIN region |->
        [j \in DOMAIN region[i] |->
            IF region[i][j] = "=Y" THEN AsFloat(year) ELSE region[i][j]]]

\* The file a group yields from the workbook recomputed for year.
FileFor(g, year) ==
    Concat([k \in DOMAIN g.ranges |->
               Materialize(g.csv, wbNames[g.ranges[k]],
                           RegionFor(wbFormulas[g.ranges[k]], year)).df])

\* C11: while save_case runs for period k the active-year cell holds the
\* year of period k and the sheet is the workbook recomputed for that year,
\* one recompute having been requested per period so far; every range read
\* for a file of inputs_p<k> shows the values of year k, and every file
\* under inputs_p<k> is the file the workbook recomputed for year k yields.
C11_PeriodOrder ==
    /\ pc = "targets" =>
          /\ counter \in 1..Len(planning_periods)
          /\ planning_periods[counter] = PeriodYear(counter)
          /\ activeYear = PeriodYear(counter)
          /\ sheet = [n \in DOMAIN wbFormulas |-> RegionFor(wbFormulas[n], PeriodYear(counter))]
          /\ requests = counter
          /\ exportCalls = [k \in 1..counter |-> k]
    /\ last.sub >= 1 =>
          \E g \in Range(csv_names) :
             /\ g.csv = last.csv
             /\ \A k \in DOMAIN last.frags :
                   last.frags[k].region = RegionFor(wbFormulas[g.ranges[k]], PeriodYear(last.sub))
    /\ \A f \in DOMAIN files :
          f.sub >= 1 =>
             \E g \in Range(Catalog(wbNames, 1, <<>>)) :
                /\ PathOf(g.csv) = f.file
                /\ files[f] = FileFor(g, PeriodYear(f.sub))

C11_Witness ==
    /\ pc = "done"
    /\ run = 1
    /\ \E f1, f2 \in DOMAIN files :
          /\ f1.sub = 1 /\ f2.sub = 2 /\ f1.file = f2.file
          /\ \E i \in DOMAIN files[f1].rows : \E j \in DOMAIN files[f1].rows[i] :
                /\ files[f1].rows[i][j] = "2025.0"
                /\ files[f2].rows[i][j] = "2030.0"

\* Periods are still to be exported.
PeriodsPending ==
    \/ pc \in {"start", "targets"}
    \/ pc = "period" /\ counter <= Len(planning_periods)

\* C12: settings/ is as the export found it for as long as a period is
\* still to be exported; the four files are written only over the copy of
\* the template; when the export has succeeded settings/ holds exactly the
\* files of the template, the four with the lines serialized from the
\* workbook and the others as the template has them, and no file of the
\* settings/ folder found.
C12_SettingsReplaced ==
    /\ PeriodsPending => settingsDir = settingsWas
    /\ pc \in Range(SettingsFiles) =>
          /\ settingsDir.exists
          /\ DOMAIN settingsDir.files = DOMAIN TemplateFiles
    /\ pc = "done" =>
          /\ settingsDir.exists
          /\ DOMAIN settingsDir.files = DOMAIN TemplateFiles
          /\ \A n \in DOMAIN TemplateFiles :
                IF n \in Range(SettingsFiles)
                THEN /\ Len(settingsDir.files[n]) = Len(wbSettings[n])
                     /\ settingsDir.files[n] = Encode(n, wbSettings[n]).lines
                ELSE settingsDir.files[n] = TemplateFiles[n]
          /\ "old_settings.yml" \notin DOMAIN settingsDir.files

C12_Witness ==
    /\ pc = "done"
    /\ settingsWas = StaleSettings
    /\ settingsDir.files["genx_settings.yml"] = <<<<"A:", "1">>, <<"B:", "2">>>>
    /\ FilePath(1, "X.csv") \in DOMAIN files

\* The texts C13 allows for a value: the integer for a boolean or a whole
\* number, the value itself for a fraction or a text, an empty or blank
\* value for a missing one.
ClaimedTexts(value) ==
    CASE value = "True" -> {"1"}
      [] value = "False" -> {"0"}
      [] value = "1.0" -> {"1"}
      [] value = "2.0" -> {"2"}
      [] value = NA -> {"", " "}
      [] OTHER -> {value}

\* C13 as stated: in each of the four files of a finished export there is
\* one line per pair of the range, in the order of the range, holding the
\* key and the value rendered as an integer (boolean, whole number), as it
\* is (fraction, text) or as an empty value (missing).
C13_Claim ==
    pc = "done" =>
       \A n \in Range(SettingsFiles) :
          /\ Len(settingsDir.files[n]) = Len(wbSettings[n])
          /\ \A i \in DOMAIN wbSettings[n] :
                /\ settingsDir.files[n][i][1] = wbSettings[n][i][1]
                /\ settingsDir.files[n][i][2] \in ClaimedTexts(wbSettings[n][i][2])

\* C17: a step is taken only while no I/O call has raised (no later step,
\* no retry); the step at which a call raises ends the export and leaves
\* every file of the case root as it was, and settings/ too unless the call
\* is the removal of settings/ itself.
C17_Abort ==
    [][/\ fault = "none"
       /\ fault' # "none" =>
             /\ pc' = "failed"
             /\ files' = files
             /\ fault' # "rmtree" => settingsDir' = settingsDir]_vars

C17_Witness ==
    /\ fault = "to_csv"
    /\ pc = "failed"
    /\ counter = 2
    /\ PeriodsFile \in DOMAIN files
    /\ \E f \in DOMAIN files : f.sub = 1
    /\ \A f \in DOMAIN files : f.sub # 2
    /\ settingsDir = settingsWas

\* C18: one recompute is requested per period (k requests when period k is
\* awaited, N when the export of N periods has returned); while the
\* recompute of period k has not settled no file of inputs_p<k> or of a later
\* period exists, settings/ is untouched and the only step there is is the
\* recompute settling; if every recompute settles the export ends.
C18_Blocking ==
    /\ [](pc = "calculating" =>
             /\ requests = counter
             /\ \A f \in DOMAIN files : f.sub < counter
             /\ settingsDir = settingsWas)
    /\ [](pc = "done" => requests = Len(KeptPeriods(modeledYears)))
    /\ [][pc = "calculating" =>
             /\ pc' = "targets"
             /\ files' = files
             /\ settingsDir' = settingsDir
             /\ requests' = requests]_vars
    /\ <>(pc \in {"done", "failed"})

C18_Witness ==
    /\ pc = "done"
    /\ requests = 2
    /\ Len(planning_periods) = 2
    /\ \E f \in DOMAIN files : f.sub = 2

\* The workbook of invocation i.
BookOf(i) == IF who = i THEN Locals ELSE parked

\* The table invocation i, run alone on an empty case root, leaves at path f:
\* the set of that table, or the empty set when it writes no such file.
AloneTables(i, f) ==
    LET b == BookOf(i)
        kept == SelectSeq(b.modeledYears, LAMBDA r : r[2] # NA)
    IN  IF f.sub = 0
        THEN IF f.file = "planning_periods.csv"
             THEN {[cols |-> <<"Planning Period", "Period ID">>, rows |-> kept]}
             ELSE {}
        ELSE IF f.sub > Len(kept) THEN {}
        ELSE {Concat([k \in DOMAIN g.ranges |->
                         Materialize(g.csv, b.wbNames[g.ranges[k]],
                                     RegionFor(b.wbFormulas[g.ranges[k]],
                                               AsInt(kept[f.sub][1]))).df]) :
                 g \in {h \in Range(Catalog(b.wbNames, 1, <<>>)) : PathOf(h.csv) = f.file}}

\* The case root invocation i leaves when it runs alone.
AloneRoot(i) ==
    LET paths == {f \in ({0} \X {"planning_periods.csv"}) \cup ((1..MaxPeriods) \X {"X.csv", "Y.csv"}) :
                     AloneTables(i, [sub |-> f[1], file |-> f[2]]) # {}}
    IN  [f \in {[sub |-> q[1], file |-> q[2]] : q \in paths} |->
            CHOOSE t \in AloneTables(i, f) : TRUE]

BothDone == pc = "done" /\ parked.pc = "done"

\* C19: when two exports to the same case root, interleaved at any step,
\* have both run to their end, the case root holds every file either of
\* them writes alone, each file as one of the two wrote it, and the four
\* settings files each as one of the two wrote it.
C19_Unserialized ==
    /\ BothDone =>
          /\ DOMAIN files = DOMAIN AloneRoot(1) \cup DOMAIN AloneRoot(2)
          /\ \A f \in DOMAIN files : files[f] \in AloneTables(1, f) \cup AloneTables(2, f)
          /\ \A n \in Range(SettingsFiles) :
                settingsDir.files[n] \in
                   {Encode(n, BookOf(1).wbSettings[n]).lines, Encode(n, BookOf(2).wbSettings[n]).lines}

\* A final case root that is the result of neither export alone, nor of one
\* after the other: inputs_p1 of the first workbook, inputs_p2 of the second.
C19_Witness ==
    /\ BothDone
    /\ Len(BookOf(1).modeledYears) = 2
    /\ Len(BookOf(2).modeledYears) = 2
    /\ files[FilePath(1, "X.csv")] = AloneRoot(1)[FilePath(1, "X.csv")]
    /\ files[FilePath(2, "X.csv")] = AloneRoot(2)[FilePath(2, "X.csv")]
    /\ files[FilePath(1, "X.csv")] # AloneRoot(2)[FilePath(1, "X.csv")]
    /\ files[FilePath(2, "X.csv")] # AloneRoot(1)[FilePath(2, "X.csv")]
    /\ files # AloneRoot(1)
    /\ files # AloneRoot(2)

\* The positions in wb.names of the retained names whose text before the
\* first "..." is key, in ascending order.
Discovered(key) ==
    SelectSeq(Indices(Len(wbNames)),
              LAMBDA i : HoldsMarker(wbNames[i]) /\ wbNames[i][1] = key)

\* C20: the groups are one per text before the first "..." among the
\* retained names; a group holds exactly the names with its key, in the
\* order of wb.names; the fragments of a pass are the names of its group in
\* that order and the columns of the file are theirs in that order; each pass
\* writes the one file of its group, so that the files of a period are as
\* many as the groups passed.
C20_Grouping ==
    /\ pc = "targets" =>
          /\ \A g, h \in DOMAIN csv_names : csv_names[g].csv = csv_names[h].csv => g = h
          /\ \A i \in DOMAIN wbNames :
                HoldsMarker(wbNames[i]) => \E g \in DOMAIN csv_names : csv_names[g].csv = wbNames[i][1]
          /\ \A g \in DOMAIN csv_names :
                /\ csv_names[g].ranges # <<>>
                /\ csv_names[g].ranges = Discovered(csv_names[g].csv)
          /\ run = 1 => Cardinality({f \in DOMAIN files : f.sub = counter}) = gi - 1
    /\ last.sub >= 1 =>
          /\ Len(last.frags) <= Len(Discovered(last.csv))
          /\ \A k \in DOMAIN last.frags : last.frags[k].name = wbNames[Discovered(last.csv)[k]]
          /\ last.ok =>
                /\ Len(last.frags) = Len(Discovered(last.csv))
                /\ last.final.cols = Flatten([k \in DOMAIN last.frags |-> last.frags[k].df.cols])
                /\ files[[sub |-> last.sub, file |-> PathOf(last.csv)]] = last.final

C20_Witness ==
    /\ wbNames = <<<<"X.csv", "2", "ffill">>, <<"X.csv", "1">>>>
    /\ last.ok
    /\ last.csv = "X.csv"
    /\ Len(last.frags) = 2
    /\ files[[sub |-> 1, file |-> "X.csv"]].cols = <<"b", "a", "zone">>

(***************************************************************************)
(* Properties of the fragment pipeline and of the case root, continued.    *)
(***************************************************************************)
\* The range is read with its first row as headers and that row names a
\* column "drop".
HasDropColumn(m) ==
    /\ m.name[Len(m.name)] # "T"
    /\ "drop" \in Range(Head(m.region))

\* The cells of the columns labelled lbl in row r of a table.
CellsUnder(df, r, lbl) == {df.rows[r][j] : j \in {c \in 1..NCols(df) : df.cols[c] = lbl}}

\* C21 as stated: a fragment read from a range that has a column named
\* "drop" holds no row whose "drop" value is true and no column named "drop",
\* and neither does the file written from it.
C21_Claim ==
    \A k \in DOMAIN last.frags :
       LET m == last.frags[k]
       IN  (HasDropColumn(m) /\ m.ok) =>
              /\ \A r \in 1..NRows(m.df) : "True" \notin CellsUnder(m.df, r, "drop")
              /\ "drop" \notin Range(m.df.cols)
              /\ last.ok => "drop" \notin Range(files[LastFile].cols)

\* The name ends with the transpose tag.
IsTransposed(name) == Len(name) >= 2 /\ name[Len(name)] = "T"

\* The positions of the rows, and of the columns, of a region that hold a
\* cell that is not missing.
FilledRows(region) ==
    SelectSeq(Indices(Len(region)), LAMBDA i : \E j \in DOMAIN region[i] : region[i][j] # NA)

FilledCols(region) ==
    SelectSeq(Indices(Len(Head(region))), LAMBDA j : \E i \in DOMAIN region : region[i][j] # NA)

\* C22: for a fragment whose name ends with "...T" every row of the region
\* is data (none is consumed as header) and the cleaned table is the region
\* without its empty rows and columns, whatever "resource" and "drop" cells it
\* holds; when the cleaned table has r rows and c >= 1 columns the transform
\* yields r columns headed by the cells of the first column and c - 1 rows,
\* the remaining columns in order.
C22_Transpose ==
    \A k \in DOMAIN last.frags :
       LET m == last.frags[k]
           fr == FilledRows(m.region)
           fc == FilledCols(m.region)
           r == Len(fr)
           c == Len(fc)
       IN  IsTransposed(m.name) =>
              /\ NRows(m.cleaned) = r
              /\ NCols(m.cleaned) = c
              /\ \A i \in 1..r : \A j \in 1..c : m.cleaned.rows[i][j] = m.region[fr[i]][fc[j]]
              /\ Range(m.cleaned.cols) \cap {"resource", "drop"} = {}
              /\ c >= 1 =>
                    /\ m.tok
                    /\ NCols(m.shaped) = r
                    /\ NRows(m.shaped) = c - 1
                    /\ \A i \in 1..r : m.shaped.cols[i] = m.region[fr[i]][fc[1]]
                    /\ \A j \in 1..(c - 1) : \A i \in 1..r :
                          m.shaped.rows[j][i] = m.region[fr[i]][fc[j + 1]]

\* A transposed range whose first row reads a, drop, resource and whose
\* second row flags a drop and names no resource: both rows are kept.
C22_Witness ==
    \E k \in DOMAIN last.frags :
       LET m == last.frags[k]
       IN  /\ IsTransposed(m.name)
           /\ m.region = <<<<"a", "drop", "resource">>, <<"2.0", "True", NA>>>>
           /\ m.tok
           /\ m.shaped = [cols |-> <<"a", "2.0">>,
                          rows |-> <<<<"drop", "True">>, <<"resource", NA>>>>]

\* A cell of the table is missing.
HoldsMissing(df) == \E i \in DOMAIN df.rows : \E j \in DOMAIN df.rows[i] : df.rows[i][j] = NA

\* The largest row count among the fragments of a pass.
LongestFragment(frags) ==
    CHOOSE n \in {NRows(frags[k].df) : k \in DOMAIN frags} :
       \A k \in DOMAIN frags : NRows(frags[k].df) <= n

\* C23 as stated: the file written for a target has as many rows as its
\* longest fragment, and whenever it holds a missing cell, be it only because
\* its fragments differ in row count, the diagnostic of that target was logged
\* during that export.
C23_Claim ==
    (last.ok /\ last.frags # <<>>) =>
       /\ NRows(files[LastFile]) = LongestFragment(last.frags)
       /\ HoldsMissing(files[LastFile]) => [sub |-> last.sub, csv |-> last.csv] \in log

\* The period id of ordinal k as planning_periods.csv writes it.
PeriodIds == <<"p1", "p2", "p3", "p4">>

\* The rows of planning_periods.csv that carry the period id of ordinal k.
RowsOfOrdinal(k) ==
    {i \in DOMAIN files[PeriodsFile].rows : files[PeriodsFile].rows[i][2] = PeriodIds[k]}

\* C24 as stated: for every planning-period table the export accepts,
\* planning_periods.csv assigns one year to the ordinal k of every folder
\* inputs_p<k>, and every file of the folder is the file the workbook
\* recomputed for that year yields.
C24_Claim ==
    \A f \in DOMAIN files :
       f.sub >= 1 =>
          /\ Cardinality(RowsOfOrdinal(f.sub)) = 1
          /\ \A i \in RowsOfOrdinal(f.sub) :
                \E g \in Range(Catalog(wbNames, 1, <<>>)) :
                   /\ PathOf(g.csv) = f.file
                   /\ files[f] = FileFor(g, AsInt(files[PeriodsFile].rows[i][1]))

\* The file is one the workbook, as it stands, wrote into folder f.sub.
OfThisWorkbook(f) ==
    \E i \in DOMAIN wbNames : HoldsMarker(wbNames[i]) /\ f.file = PathOf(wbNames[i][1])

\* C25 as stated: when a second export to the same case root has succeeded,
\* the folders under inputs/ are inputs_p1..inputs_pN for the N periods of
\* that export, every file below them is a target of that export, and no
\* folder or file of the first export is left besides.
C25_Claim ==
    (run = 2 /\ pc = "done") =>
       \A f \in DOMAIN files :
          f.sub >= 1 => /\ f.sub \in 1..Len(planning_periods)
                        /\ OfThisWorkbook(f)

(***************************************************************************)
(* Properties of the import.                                               *)
(***************************************************************************)
ImportFinished == ipc \in {"done", "failed"}

SummaryRanges == {"capacities_multi_stage", "costs_multi_stage", "capacities", "cfs", "generation"}

\* C3 as stated: a second load_case_results on the same case root, after
\* a first one that wrote all its tables, writes the same five tables.
C3_Claim ==
    (irun = 2 /\ ImportFinished /\ DOMAIN isnap = SummaryRanges) => written = isnap

\* The year planning_periods.csv gives the period whose results folder
\* ends in tail: that of the last row carrying its id; "" when no row does.
MappedYear(tail) ==
    LET at == {i \in DOMAIN periodsCsv.rows : IdTail(periodsCsv.rows[i][2]) = tail}
    IN  IF ~periodsCsv.present \/ at = {} THEN ""
        ELSE AsInt(periodsCsv.rows[CHOOSE i \in at : \A h \in at : h <= i][1])

CostsWritten == "costs_multi_stage" \in DOMAIN written

\* Column j of the cost file is headed as it should be in the cost table:
\* by the year of its period when the period map has one.
CostHeaderRight(j) ==
    LET raw == costsRaw.cols[j]
        out == written["costs_multi_stage"].cols[j]
    IN  IF raw.base = "TotalCosts_p" /\ MappedYear(raw.suffix) # ""
        THEN out = YearLabel(MappedYear(raw.suffix))
        ELSE periodsCsv.present => out = raw

\* C7 as stated: the cost table holds v / 1,000,000 for every raw value v,
\* under the year of the column's period.
C7_Original ==
    CostsWritten =>
       \A j \in DOMAIN costsRaw.cols :
          /\ CostHeaderRight(j)
          /\ \A i \in DOMAIN costsRaw.rows :
                1000 * written["costs_multi_stage"].rows[i][j] = costsRaw.rows[i][j]

\* C7, amended: the cost table holds v / 1,000,000 rounded to three
\* decimals (to the nearest thousandth, a tie to the even one), under the
\* year the period map gives the column's period; no TotalCosts_p<k> label of
\* a mapped period is left.
C7_Rescaled ==
    CostsWritten =>
       LET out == written["costs_multi_stage"]
       IN  /\ NCols(out) = NCols(costsRaw) /\ NRows(out) = NRows(costsRaw)
           /\ \A j \in DOMAIN costsRaw.cols :
                 /\ CostHeaderRight(j)
                 /\ (out.cols[j].base = "TotalCosts_p") => MappedYear(out.cols[j].suffix) = ""
                 /\ \A i \in DOMAIN costsRaw.rows :
                       LET d == costsRaw.rows[i][j] - 1000 * out.rows[i][j]
                       IN  /\ -500 <= d /\ d <= 500
                           /\ (d = 500 \/ d = -500) => out.rows[i][j] % 2 = 0

C7_Witness ==
    /\ CostsWritten
    /\ costsRaw.cols[2] = Label("TotalCosts_p", "2")
    /\ costsRaw.rows[1][2] = 5000000
    /\ MappedYear("2") = "2030"
    /\ written["costs_multi_stage"].cols[2] = YearLabel("2030")
    /\ written["costs_multi_stage"].rows[1][2] = 5000
    /\ costsRaw.rows[1][1] = 4999
    /\ written["costs_multi_stage"].rows[1][1] = 5

\* The period map has been built, nothing has raised since and results/ is
\* still as it was listed (the report is not saved yet).
PeriodsLoaded == ipc \in {"capacity", "costs", "builds", "cfs", "generation", "report"}

\* The first row of planning_periods.csv whose id names the folder ending
\* in tail.
FirstRow(tail) ==
    CHOOSE i \in DOMAIN periodsCsv.rows :
       /\ IdTail(periodsCsv.rows[i][2]) = tail
       /\ \A h \in DOMAIN periodsCsv.rows : IdTail(periodsCsv.rows[h][2]) = tail => i <= h

\* C14: with planning_periods.csv the period map is made of the file's
\* rows alone (one period per id, in the order of the rows, with the year of
\* the row), whatever results/ holds; without it the periods are exactly the
\* results_p* entries of results/, each once, in ascending order of the
\* number after "results_p", and no year is known.
C14_PeriodSource ==
    PeriodsLoaded =>
       /\ \A i, j \in DOMAIN periods_range :
             periods_range[i].key = periods_range[j].key => i = j
       /\ IF periodsCsv.present
          THEN /\ \A r \in Range(periodsCsv.rows) :
                     \E i \in DOMAIN periods_range : periods_range[i].key = PeriodDir(IdTail(r[2]))
               /\ \A i \in DOMAIN periods_range :
                     /\ \E r \in Range(periodsCsv.rows) :
                           periods_range[i].key = PeriodDir(IdTail(r[2]))
                     /\ periods_range[i].val = YearLabel(MappedYear(periods_range[i].key.tail))
               /\ \A i, j \in DOMAIN periods_range :
                     i < j => FirstRow(periods_range[i].key.tail) < FirstRow(periods_range[j].key.tail)
          ELSE /\ {periods_range[i].key : i \in DOMAIN periods_range} =
                     {e \in resultsDir : e.head = "results_p"}
               /\ \A i \in DOMAIN periods_range : periods_range[i].val = NoneLabel
               /\ \A i, j \in DOMAIN periods_range :
                     i < j => TailNumber(periods_range[i].key.tail)
                                 <= TailNumber(periods_range[j].key.tail)

C14_Witness ==
    /\ ipc = "capacity"
    /\ ~periodsCsv.present
    /\ \E i, j \in DOMAIN periods_range :
          /\ i < j
          /\ periods_range[i].key = PeriodDir("2")
          /\ periods_range[j].key = PeriodDir("10")

CapsWritten == "capacities_multi_stage" \in DOMAIN written

\* The columns of the capacity file that are neither a starting capacity
\* nor the zone, as positions in the file.
KeptCaps ==
    SelectSeq(Indices(NCols(capsRaw)),
              LAMBDA j : capsRaw.cols[j].base # "StartCap_p" /\ capsRaw.cols[j] # Label("Zone", ""))

\* The periods of the map whose folder ends in tail.
MappedAt(tail) == {i \in DOMAIN periods_range : periods_range[i].key.tail = tail}

C16_Claim ==
    (pc = "done" /\ periodsCsv.present /\ ipc = "capacity") =>
       LET rows == files[PeriodsFile].rows
       IN  /\ \A i, j \in DOMAIN rows : rows[i][1] = rows[j][1] => i = j
           /\ Len(periods_range) = Len(exportCalls)
           /\ \A k \in DOMAIN exportCalls :
                 \E i \in DOMAIN periods_range : periods_range[i].key = PeriodDir(OrdinalText[k])
           /\ \A i, j \in DOMAIN periods_range :
                 periods_range[i].val = periods_range[j].val => i = j

\* The per-metric ranges load_case_results fills from the period folders.
MetricRanges == {"capacities", "cfs", "generation"}

\* C26 as stated: each of the net-build, capacity-factor and generation
\* tables written has one column for every period of the period map, in the
\* order of the map, holding that period's series, whether the map was read
\* from planning_periods.csv or made of the results_p* folders.
C26_Claim ==
    /\ \A n \in MetricRanges \cap DOMAIN written : NCols(written[n]) = Len(periods_range)
    /\ "cfs" \in DOMAIN written =>
          \A j \in 1..NCols(written["cfs"]) :
             /\ j <= Len(periods_range)
             /\ written["cfs"].rows[1][j] = PeriodData(periods_range[j].key.tail).CapacityFactor


(***************************************************************************)
(* Properties of the container runner, the event handler and the cleanup.  *)
(***************************************************************************)
StageNames == [i \in DOMAIN stages |-> stages[i].name]

\* The blobs of the output container uploaded by this run.
FreshBlobs == {b \in DOMAIN outputBlobs : outputBlobs[b].stamp = "now"}

\* C27: with a case name set the stages called are a beginning of
\* download, optimize, upload, each called only after the one before it
\* returned success; the process has exited with status 1 exactly when the
\* last stage called failed, and then no later stage is called; after an
\* optimization that failed or timed out nothing is uploaded; with no case
\* name only the fallback example runs, nothing is downloaded or uploaded.
C27_Pipeline ==
    /\ case_name # "" =>
          /\ Len(stages) <= 3
          /\ StageNames = SubSeq(<<"download", "optimize", "upload">>, 1, Len(stages))
          /\ \A i \in 2..Len(stages) : stages[i - 1].result = "ok"
          /\ exitStatus = 1 <=>
                (stages # <<>> /\ stages[Len(stages)].result \notin {"ok", "running"})
          /\ exitStatus = 0 <=> (Len(stages) = 3 /\ stages[3].result = "ok")
          /\ rpc = "exited" <=> exitStatus # -1
          /\ (Len(stages) >= 2 /\ stages[2].result # "ok") =>
                /\ Len(stages) = 2
                /\ exitStatus = 1
                /\ FreshBlobs = {}
          /\ FreshBlobs # {} => Len(stages) = 3
    /\ case_name = "" =>
          /\ StageNames \in {<<>>, <<"fallback">>}
          /\ rpc = "exited" <=> exitStatus # -1
          /\ exitStatus = 0 <=> (stages # <<>> /\ stages[1].result = "ok")
          /\ ~caseDir.exists /\ caseDir.files = {}
          /\ FreshBlobs = {}

C27_Witness ==
    /\ case_name = "c1"
    /\ rpc = "exited"
    /\ exitStatus = 1
    /\ Len(stages) = 2
    /\ stages[2].result = "timeout"
    /\ resultsTree.exists
    /\ \E i \in DOMAIN resultsTree.entries : resultsTree.entries[i].isFile

\* The blob names of the files under results/, as rglob yields them.
TreeBlobs ==
    LET fs == SelectSeq(resultsTree.entries, LAMBDA en : en.isFile)
    IN  [i \in DOMAIN fs |-> BlobName(case_name, fs[i].rel)]

\* What upload_results has returned: "none" before it is called, "running"
\* while it runs.
UploadStage == IF Len(stages) = 3 THEN stages[3].result ELSE "none"

\* This run has uploaded the summary blob.
FreshSummary == SummaryBlob(case_name) \in FreshBlobs

\* C28: once the summary is uploaded every file under results/ has its
\* blob uploaded by this call, the summary's list is the blob names uploaded,
\* in order, its count their number, and upload_results has returned True;
\* while the loop runs and when an upload has raised (upload_results returns
\* False) there is no summary of this call, whatever summary was there is as
\* it was, and the blobs uploaded so far are in the container.
C28_Summary ==
    /\ FreshSummary =>
          LET s == outputBlobs[SummaryBlob(case_name)]
          IN  /\ UploadStage = "ok"
              /\ uploaded_files = TreeBlobs
              /\ FreshBlobs = Range(TreeBlobs) \cup {SummaryBlob(case_name)}
              /\ s.files = uploaded_files
              /\ s.files_uploaded = Len(uploaded_files)
              /\ s.status = "completed"
    /\ UploadStage \in {"running", "raised"} =>
          /\ ~FreshSummary
          /\ FreshBlobs = Range(uploaded_files)
          /\ Len(uploaded_files) <= Len(TreeBlobs)
          /\ uploaded_files = SubSeq(TreeBlobs, 1, Len(uploaded_files))
    /\ UploadStage \in {"none", "noclient", "noresults"} => FreshBlobs = {}
    /\ (~FreshSummary /\ SummaryBlob("c1") \in DOMAIN outputBlobs) =>
          outputBlobs[SummaryBlob("c1")] = StaleBlobs[SummaryBlob("c1")]

C28_Witness ==
    /\ FreshSummary
    /\ Len(resultsTree.entries) = 3
    /\ outputBlobs[SummaryBlob(case_name)].files_uploaded = 2
    /\ BlobName(case_name, "p1/cap.csv") \in FreshBlobs
    /\ exitStatus = 0

\* The text after the last "/" of the url, which the handler takes for the
\* blob name, passes is_genx_case.
NamesCase(ev) == Len(ev.url) >= 2 /\ IsGenxCase(<<ev.url[Len(ev.url)]>>)

\* The creations attempted for the i-th event.
CreationsOf(i) == {k \in DOMAIN creations : creations[k].of = i}

Deletable(c) ==
    /\ c.name[1] \in {"genx", "GenX"}
    /\ c.state \in {"Succeeded", "Failed", "Terminated"}
    /\ c.created.fmt = "iso"
    /\ c.created.age > max_age_hours

\* C30: begin_delete is called only for container groups whose name holds
\* "genx", whose state is Succeeded, Failed or Terminated and whose
\* 'created-at' tag reads as a time more than max_age_hours ago, once each;
\* when the cleanup has run to its end every such group has had its call,
\* also after a call that raised, and cleaned_count counts the calls that did
\* not raise.
C30_Cleanup ==
    /\ \A k \in DOMAIN deleteRequests :
          /\ deleteRequests[k].group \in DOMAIN containerGroups
          /\ Deletable(containerGroups[deleteRequests[k].group])
    /\ \A j, k \in DOMAIN deleteRequests :
          deleteRequests[j].group = deleteRequests[k].group => j = k
    /\ cleaned_count = Cardinality({k \in DOMAIN deleteRequests : deleteRequests[k].accepted})
    /\ mpc = "failed" => deleteRequests = <<>>
    /\ mpc = "done" =>
          \A i \in DOMAIN containerGroups :
             Deletable(containerGroups[i]) =>
                \E k \in DOMAIN deleteRequests : deleteRequests[k].group = i

C30_Witness ==
    /\ mpc = "done"
    /\ Len(containerGroups) = 3
    /\ containerGroups[2].state = "Running"
    /\ Len(deleteRequests) = 2
    /\ ~deleteRequests[1].accepted
    /\ deleteRequests[2].accepted
    /\ deleteRequests[2].group = 3
    /\ cleaned_count = 1

=============================================================================
